---- MODULE Spec2Model ----
(***************************************************************************)
(* Model of the content-scoring engine: SubstanceDetector                  *)
(* (src/substance.py), QualityAssessor (src/quality.py),                   *)
(* UniquenessDetector (src/uniqueness.py) and the batch pipeline           *)
(* analyze_all_content / generate_reports (src/master_analysis.py).        *)
(*                                                                         *)
(* Numbers.  Every score of the three scorers is a multiple of 0.1, so a   *)
(* score is kept as an integer number of TENTHS of a point (25 points is   *)
(* 250, the neutral 12.5 is 125).  round(x, 2) of such a value is the      *)
(* value itself.  composite_score has two decimals and is kept in          *)
(* HUNDREDTHS.  Cosine similarities are kept in thousandths (0..1000).     *)
(*                                                                         *)
(* Texts.  The scorers read a text only through counts and tests (regex    *)
(* match counts, substring tests, lengths).  A text is therefore a record  *)
(* of those readings; each field names the source expression it stands     *)
(* for (see PlainText).                                                    *)
(***************************************************************************)
EXTENDS Integers, Sequences, FiniteSets, TLC

Range(seq) == { seq[j] : j \in 1..Len(seq) }
Min(a, b) == IF a <= b THEN a ELSE b
Max(a, b) == IF a >= b THEN a ELSE b

\* Python's None and a present value, as the empty and the one-element tuple.
None == <<>>
Some(x) == <<x>>

(***************************************************************************)
(* A text, as the readings the code takes of it.                           *)
(***************************************************************************)
PlainText ==
  [ is_none        |-> FALSE, \* text is None (JSON null)
    chars          |-> 60,    \* len(text)
    strip_len      |-> 60,    \* len(text.strip())
    words          |-> 12,    \* len(text.split())
    word_chars     |-> 49,    \* sum(len(w) for w in text_lower.split())
    sentences      |-> 12,    \* non-empty pieces of re.split(r'[.!?]+', text)
    newlines       |-> 0,     \* text.count('\n')
    paragraphs     |-> 1,     \* non-empty pieces of text.split('\n\n')
    first_line_len |-> 60,    \* len(text.split('\n')[0])
    first_line_words |-> 2,   \* words of the first non-blank line
    numbers        |-> 0,     \* re.findall(r'\b\d+[%$]?\b|\$\d+', text)
    bullet         |-> FALSE, \* '•' in text
    numbered_dot   |-> FALSE, \* re.search(r'\n\d+\.', text)
    dash_items     |-> 0,     \* text.count('\n-')
    numbered_items |-> 0,     \* re.findall(r'\n\d+[\.\)]\s', text)
    example        |-> FALSE, \* any of substance example_patterns matches
    experience_words |-> 0,   \* experience_words present in text_lower
    problem        |-> FALSE, \* 'problem' in text_lower
    solution       |-> FALSE, \* 'solution' in text_lower
    long_words     |-> 0,     \* words with len(w) > 10
    value_found    |-> <<0, 0, 0, 0, 0, 0, 0>>, \* keywords present, per category
    conclusion     |-> FALSE, \* a conclusion word in the last paragraph
    headers        |-> FALSE, \* re.search(r'[A-Z\s]{10,}:', text)
    em_dashes      |-> 0,     \* text.count('—')
    shallow        |-> 0,     \* shallow_indicators present in text_lower
    emoji_s        |-> 0,     \* matches of the substance emoji class
    flesch_ok      |-> TRUE,  \* textstat.flesch_reading_ease returns
    grade_ok       |-> TRUE,  \* textstat.flesch_kincaid_grade returns
    flesch         |-> 0,     \* textstat.flesch_reading_ease(text), tenths
    grade          |-> 200,   \* textstat.flesch_kincaid_grade(text), tenths
    sent_varied    |-> FALSE, \* std_dev of sentence word counts > 5
    transitions    |-> 0,     \* transition_words present
    prof_words     |-> 0,     \* professional_words present
    emoji_q        |-> 0,     \* matches of the quality emoji class
    caps3          |-> 0,     \* re.findall(r'\b[A-Z]{3,}\b', text)
    caps4          |-> 0,     \* re.findall(r'\b[A-Z]{4,}\b', text)
    signoff        |-> FALSE, \* 'p.s.' / 'best regards' / 'cheers' present
    lines_long     |-> 1,     \* non-blank lines with len(l.strip()) > 10
    lines_complete |-> 0,     \* ... of those, ending in one of '.!?'
    long_sentences |-> 0,     \* sentences with more than 40 words
    commas         |-> 0,     \* text.count(',')
    past_markers   |-> 1,     \* was|were|had|did|went|got
    present_markers |-> 1,    \* is|are|have|do|goes|get
    clickbait      |-> 0,     \* clickbait_patterns that match
    spam           |-> 0,     \* spam_indicators present
    triple_bang    |-> 0,     \* text.count('!!!')
    triple_quest   |-> 0,     \* text.count('???')
    typos          |-> 0,     \* re.findall(r'(\w)\1{3,}', text_lower)
    pronouns       |-> 0,     \* i|my|me|i'm|i've|i'll matches
    personal_phrases |-> 0,   \* personal_indicators present
    time_refs      |-> 0,     \* year / 'ago' / 'last X' matches
    \* distinct capitalised spans, by where they occur in text.split('. '):
    caps_first_inner   |-> 0, \* only in sentences[0], after its first token
    caps_later_initial |-> 0, \* in sentences[1:], only as a first token
    caps_later_inner   |-> 0, \* in sentences[1:], after the first token
    orig_phrases   |-> 0,     \* originality_indicators present
    contrarian     |-> 0,     \* contrarian_markers present
    questions      |-> 0,     \* text.count('?')
    rare_words     |-> 0,     \* words with len(w) > 12
    branded        |-> 0,     \* distinct CamelCase terms
    actions        |-> 0,     \* specific_actions present
    generic        |-> 0,     \* generic_phrases present
    buzz           |-> 0,     \* buzzwords present
    quotes         |-> FALSE, \* '"' in text_lower
    said           |-> FALSE, \* 'said' in text_lower
    copy_marker    |-> FALSE, \* 'credit:' / 'source:' / 'via:' present
    tokens         |-> TRUE ] \* the text has a token the vectorizer keeps

\* `not text`: None and the empty string are falsy.
Falsy(text) == text.is_none \/ text.chars = 0

(***************************************************************************)
(* The texts the model scores.  A text is named by a family, a shape (its  *)
(* lengths) and five levels k; Readings gives the readings of that text.   *)
(* The named texts are real strings whose readings were taken with the     *)
(* expressions of the source:                                              *)
(*   ShortText  "Success is a mindset! Agree? <rocket>"  (30 characters)   *)
(*   FlatText   a 218-character engagement-bait template                   *)
(*   RichText   a 230-word post with a numbered list, figures, a header,   *)
(*              a personal story and a closing P.S.                        *)
(*   EmptyText  ""                                                         *)
(***************************************************************************)
MaxLevel == 2

EmptyText ==
  [ PlainText EXCEPT
      !.chars = 0, !.strip_len = 0, !.words = 0, !.word_chars = 0,
      !.sentences = 0, !.paragraphs = 0, !.first_line_len = 0,
      !.first_line_words = 0, !.lines_long = 0, !.past_markers = 0,
      !.present_markers = 0, !.tokens = FALSE ]

\* JSON null: the value post.get('text', '') returns for "text": null
NullText == [ EmptyText EXCEPT !.is_none = TRUE ]

ShortText ==
  [ PlainText EXCEPT
      !.chars = 30,
      !.strip_len = 30,
      !.words = 6,
      !.word_chars = 25,
      !.sentences = 3,
      !.first_line_len = 30,
      !.first_line_words = 6,
      !.shallow = 1,
      !.emoji_s = 1,
      !.emoji_q = 1,
      !.past_markers = 0,
      !.caps_first_inner = 1,
      !.questions = 1,
      !.flesch = 800,
      !.grade = 20 ]

FlatText ==
  [ PlainText EXCEPT
      !.chars = 218,
      !.strip_len = 218,
      !.words = 39,
      !.word_chars = 180,
      !.sentences = 7,
      !.first_line_len = 218,
      !.first_line_words = 39,
      !.shallow = 3,
      !.prof_words = 1,
      !.lines_complete = 1,
      !.commas = 2,
      !.past_markers = 0,
      !.spam = 3,
      !.triple_bang = 1,
      !.pronouns = 1,
      !.questions = 2,
      !.generic = 7,
      !.buzz = 3,
      !.flesch = 850,
      !.grade = 30 ]

RichText ==
  [ PlainText EXCEPT
      !.chars = 1432,
      !.strip_len = 1432,
      !.words = 230,
      !.word_chars = 1199,
      !.sentences = 23,
      !.newlines = 12,
      !.paragraphs = 5,
      !.first_line_len = 76,
      !.first_line_words = 15,
      !.numbers = 11,
      !.numbered_dot = TRUE,
      !.numbered_items = 4,
      !.example = TRUE,
      !.experience_words = 4,
      !.problem = TRUE,
      !.solution = TRUE,
      !.long_words = 11,
      !.value_found = <<4, 6, 2, 2, 5, 5, 5>>,
      !.conclusion = TRUE,
      !.headers = TRUE,
      !.sent_varied = TRUE,
      !.transitions = 3,
      !.prof_words = 7,
      !.caps3 = 2,
      !.caps4 = 1,
      !.signoff = TRUE,
      !.lines_long = 9,
      !.lines_complete = 8,
      !.commas = 16,
      !.past_markers = 4,
      !.present_markers = 2,
      !.pronouns = 7,
      !.personal_phrases = 3,
      !.time_refs = 2,
      !.caps_first_inner = 1,
      !.caps_later_initial = 10,
      !.caps_later_inner = 6,
      !.orig_phrases = 1,
      !.contrarian = 3,
      !.questions = 1,
      !.rare_words = 7,
      !.branded = 1,
      !.actions = 4,
      !.flesch = 550,
      !.grade = 100 ]


Shapes ==
  << [chars |-> 0,    strip_len |-> 0,    words |-> 0],
     [chars |-> 4,    strip_len |-> 0,    words |-> 0],
     [chars |-> 29,   strip_len |-> 29,   words |-> 4],
     [chars |-> 31,   strip_len |-> 30,   words |-> 4],
     [chars |-> 49,   strip_len |-> 49,   words |-> 7],
     [chars |-> 50,   strip_len |-> 50,   words |-> 7],
     [chars |-> 700,  strip_len |-> 700,  words |-> 100],
     [chars |-> 710,  strip_len |-> 710,  words |-> 101],
     [chars |-> 3600, strip_len |-> 3600, words |-> 501] >>

\* A one-line text of the given lengths with four-letter words and nothing
\* any detector looks for.
ShapedText(sh) ==
  [ PlainText EXCEPT
      !.chars = sh.chars, !.strip_len = sh.strip_len, !.words = sh.words,
      !.word_chars = 4 * sh.words, !.sentences = sh.words,
      !.paragraphs = IF sh.strip_len > 0 THEN 1 ELSE 0,
      !.first_line_len = sh.chars, !.first_line_words = sh.words,
      !.lines_long = IF sh.strip_len > 10 THEN 1 ELSE 0,
      !.past_markers = 0, !.present_markers = 0,
      !.tokens = sh.words > 0 ]

\* n occurrences, as far as `room` leaves place for them
Fit(n, room) == Min(n, room)

\* k = <<information density, depth, value indicators, structure, penalties>>
SubstanceText(sh, k) ==
  LET b == ShapedText(sh)
      w == sh.words
      items == Fit(3 * k[2], w)
  IN [ b EXCEPT
         !.sentences = IF k[1] = 0 THEN w
                       ELSE IF k[1] = 1 THEN Max(1, w \div 12)
                       ELSE Max(1, w \div 20),
         !.numbers = Fit(3 * k[1], w),
         !.bullet = k[1] >= 2 /\ w > 0,
         !.example = k[2] >= 1,
         !.experience_words = Fit(Min(5, 2 * k[2]), w),
         !.problem = k[2] >= 2, !.solution = k[2] >= 2,
         !.numbered_items = items,
         !.numbered_dot = items > 0,
         !.long_words = Fit(9 * k[2], (sh.strip_len + 1) \div 12),
         \* level 1: six categories with three keywords each; level 2: the
         \* seventh as well, with two; above: one, two, three and four keywords
         !.value_found = [c \in 1..7 |->
                            Fit(IF k[3] = 0 THEN 0
                                ELSE IF k[3] = 1 THEN (IF c <= 6 THEN 3 ELSE 0)
                                ELSE IF k[3] = 2 THEN (IF c <= 6 THEN 3 ELSE 2)
                                ELSE (IF c <= 4 THEN c ELSE 0), Min(w, 6))],
         !.paragraphs = IF sh.strip_len > 0 THEN 1 + Min(k[4], 4) ELSE 0,
         !.newlines = Max(3 * k[4], items),
         \* a first line of 20 characters at level 1, of 150 at level 2
         !.first_line_len = IF k[4] = 0 /\ items = 0 THEN sh.chars
                            ELSE IF k[4] = 1 THEN Min(sh.chars \div 2, 20)
                            ELSE IF k[4] = 2 THEN Min(sh.chars \div 2, 150)
                            ELSE Min(sh.chars \div 2, 24),
         !.first_line_words = IF k[4] = 0 /\ items = 0 THEN w ELSE Min(w, 2),
         !.conclusion = k[4] >= 2, !.headers = k[4] >= 2,
         !.shallow = Fit(2 * k[5], Min(w, 8)),
         !.emoji_s = Fit(6 * k[5], sh.strip_len \div 2) ]

\* k = <<readability, structure, professionalism, grammar, penalties>>
QualityText(sh, k) ==
  LET b == ShapedText(sh)
      w == sh.words
      shout == IF k[5] >= 2 THEN Fit(4, w) ELSE 0
      \* level 1 has triple punctuation only
      heavy == IF k[5] = 2 THEN 2 ELSE IF k[5] >= 3 THEN 1 ELSE 0
  IN [ b EXCEPT
         \* level 1: the grade call raises; on a one-paragraph text the ease
         \* call raises before it, otherwise the ease was already added
         !.flesch_ok = ~(k[1] = 1 /\ k[2] = 0),
         !.grade_ok = k[1] # 1,
         !.flesch = IF k[1] = 0 THEN 250 ELSE IF k[1] <= 2 THEN 600 ELSE 450,
         !.grade = IF k[1] = 0 THEN 170 ELSE IF k[1] = 2 THEN 100 ELSE 130,
         !.sent_varied = k[1] >= 2 /\ w >= 20,
         !.sentences = IF w >= 82 THEN 2 ELSE w,
         !.long_sentences = IF w >= 82 /\ k[4] = 0 THEN 2 ELSE 0,
         !.paragraphs = IF sh.strip_len > 0 THEN 1 + Min(k[2], 4) ELSE 0,
         !.newlines = IF k[2] = 0 THEN 0 ELSE 4 + k[2],
         !.first_line_len = IF k[2] = 0 THEN sh.chars ELSE Min(sh.chars \div 2, 24),
         !.first_line_words = IF k[2] = 0 THEN Min(w, 2) ELSE Min(w, 8),
         !.bullet = k[2] >= 2 /\ w > 0,
         !.transitions = Fit(2 * k[2], Min(w, 8)),
         !.prof_words = IF k[3] >= 2 THEN Fit(7, w) ELSE 0,
         !.emoji_q = IF k[3] = 0 THEN Fit(12, sh.strip_len \div 2)
                     ELSE IF k[3] = 1 THEN Fit(7, sh.strip_len \div 2)
                     ELSE 0,
         !.caps3 = Max(IF k[3] = 0 THEN Fit(6, w) ELSE 0, shout),
         !.caps4 = shout,
         !.signoff = k[3] >= 2,
         !.lines_complete = IF k[4] >= 1 /\ sh.strip_len > 10 THEN 1 ELSE 0,
         !.commas = IF k[4] >= 1 THEN Max(1, w \div 50) ELSE 0,
         !.past_markers = IF k[4] >= 2 THEN Fit(3, w) ELSE Fit(1, w),
         !.present_markers = IF k[4] >= 2 THEN 0 ELSE Fit(1, w),
         !.clickbait = Fit(heavy, w),
         !.spam = Fit(heavy, w),
         !.triple_bang = Fit(3 * k[5], sh.strip_len \div 3),
         !.triple_quest = IF k[5] >= 2 THEN Fit(1, sh.strip_len \div 12) ELSE 0,
         !.typos = Fit(heavy, w) ]

\* k = <<personal story, original thinking, specificity, penalties, unused>>
UniquenessText(sh, k) ==
  LET b == ShapedText(sh)
      w == sh.words
      rare == Fit(4 * k[2], (sh.strip_len + 1) \div 14)
  IN [ b EXCEPT
         !.pronouns = Fit(10 * k[1], w),
         !.personal_phrases = Fit(2 * k[1], w \div 2),
         !.time_refs = Fit(2 * k[1], w),
         !.caps_first_inner = Fit(k[1], w),
         !.caps_later_initial = Fit(2 * k[1], w),
         !.caps_later_inner = Fit(2 * k[1], w),
         !.orig_phrases = Fit(2 * k[2], w \div 2),
         !.contrarian = Fit(k[2], w \div 2),
         !.questions = 2 * k[2],
         !.rare_words = rare, !.long_words = rare,
         !.numbers = Fit(3 * k[3], w),
         !.branded = Fit(2 * k[3], w),
         !.actions = Fit(2 * k[3], w),
         !.word_chars = IF k[3] = 0 THEN 4 * w
                        ELSE IF k[3] = 1 THEN 5 * w + 1
                        ELSE 6 * w,
         !.generic = Fit(2 * k[4], w \div 2),
         !.buzz = Fit(k[4], w),
         !.quotes = k[4] >= 1,
         !.copy_marker = k[4] >= 2 ]

NoLevels == <<0, 0, 0, 0, 0>>
Text(fam, shape, k) == [fam |-> fam, shape |-> shape, k |-> k]

Readings(t) ==
  CASE t.fam = "empty"      -> EmptyText
    [] t.fam = "null"       -> NullText
    [] t.fam = "short"      -> ShortText
    [] t.fam = "flat"       -> FlatText
    [] t.fam = "rich"       -> RichText
    [] t.fam = "substance"  -> SubstanceText(Shapes[t.shape], t.k)
    [] t.fam = "quality"    -> QualityText(Shapes[t.shape], t.k)
    [] t.fam = "uniqueness" -> UniquenessText(Shapes[t.shape], t.k)

Levels == 0..MaxLevel
\* Blank texts (shapes 1 and 2) have nothing to vary.
FamilyTexts(fam, knobs) ==
  { Text(fam, sh, NoLevels) : sh \in 1..2 }
  \cup { Text(fam, sh, [j \in 1..5 |-> IF j <= knobs THEN k[j] ELSE 0]) :
           sh \in 3..Len(Shapes), k \in [1..knobs -> Levels] }
SubstanceTexts  == FamilyTexts("substance", 5)
QualityTexts    == FamilyTexts("quality", 5)
UniquenessTexts == FamilyTexts("uniqueness", 4)

\* The texts of a batch, and the posts that carry them: a post is a JSON
\* object whose 'text' key may be absent, or present with the value null.
BatchTexts == { Text(f, 0, NoLevels) : f \in {"short", "flat", "rich"} }
              \cup { Text("substance", 3, NoLevels) }
Post(has_text, text) == [has_text |-> has_text, text |-> text]
BatchPosts == { Post(TRUE, t) : t \in BatchTexts }
              \cup { Post(FALSE, Text("empty", 0, NoLevels)),
                     Post(TRUE, Text("null", 0, NoLevels)) }
\* post.get('text', '')
PostText(post) == IF post.has_text THEN post.text ELSE Text("empty", 0, NoLevels)

(***************************************************************************)
(* SubstanceDetector                                                       *)
(***************************************************************************)
Substance_score_information_density(text) ==
  LET words == text.words
      tier  == IF words > 500 THEN 100
               ELSE IF words > 300 THEN 70
               ELSE IF words > 150 THEN 50
               ELSE IF words > 100 THEN 30
               ELSE 0
      \* avg_words_per_sentence = words / len(sentences), compared exactly
      complexity ==
        IF text.sentences > 0
        THEN IF 15 * text.sentences <= words /\ words <= 25 * text.sentences
             THEN 80
             ELSE IF 10 * text.sentences <= words /\ words < 15 * text.sentences
                  THEN 50
                  ELSE 0
        ELSE 0
      nums == Min(70, text.numbers * 15)
      has_lists == text.bullet \/ text.numbered_dot \/ text.dash_items > 2
      lists == IF has_lists THEN 50 ELSE 0
  IN Min(300, tier + complexity + nums + lists)

Substance_score_depth(text) ==
  LET ex    == IF text.example THEN 30 ELSE 0
      exper == Min(50, 20 * text.experience_words)
      ps    == IF text.problem /\ text.solution THEN 40 ELSE 0
      steps == Min(80, text.numbered_items * 15)
      lw    == Min(50, text.long_words * 3)
  IN Min(250, ex + exper + ps + steps + lw)

\* Variant: a category gives 1.5 for every keyword found, without limit.
RECURSIVE SumCategories_uncapped_category(_, _)
SumCategories_uncapped_category(found, k) ==
  IF k = 0 THEN 0
  ELSE SumCategories_uncapped_category(found, k - 1) + found[k] * 15

RECURSIVE SumCategories(_, _)
SumCategories(found, k) ==
  IF k = 0 THEN 0
  ELSE SumCategories(found, k - 1)
       + (IF found[k] > 0 THEN Min(40, found[k] * 15) ELSE 0)

\* Variant: the category points are summed without the cap of 25.
Substance_score_value_indicators_uncapped(text) ==
  SumCategories(text.value_found, Len(text.value_found))

Substance_score_value_indicators(text) ==
  Min(250, SumCategories(text.value_found, Len(text.value_found)))

Substance_score_structure(text) ==
  LET paras == IF text.paragraphs >= 3 THEN 50
               ELSE IF text.paragraphs >= 2 THEN 30
               ELSE 0
      hook  == IF text.first_line_len < 150 /\ text.first_line_len > 20
               THEN 30 ELSE 0
      concl == IF text.conclusion THEN 40 ELSE 0
      fmt   == IF text.newlines > 5 THEN 30 ELSE 0
      heads == IF text.headers \/ text.em_dashes > 2 THEN 50 ELSE 0
  IN Min(200, paras + hook + concl + fmt + heads)

\* Variant: a post of exactly 100 words is penalised as short.
Substance_calculate_penalties_short_at_100(text) ==
  LET bait  == 30 * text.shallow
      emoji == IF text.emoji_s > 10 THEN 50
               ELSE IF text.emoji_s > 5 THEN 20
               ELSE 0
      short == IF text.words <= 100 THEN 50 ELSE 0
  IN Min(150, bait + emoji + short)

Substance_calculate_penalties(text) ==
  LET bait  == 30 * text.shallow
      emoji == IF text.emoji_s > 10 THEN 50
               ELSE IF text.emoji_s > 5 THEN 20
               ELSE 0
      short == IF text.words < 100 THEN 50 ELSE 0
  IN Min(150, bait + emoji + short)

Substance_classify_substance(score) ==
  IF score >= 800 THEN "Exceptional Substance"
  ELSE IF score >= 650 THEN "High Substance"
  ELSE IF score >= 500 THEN "Moderate Substance"
  ELSE IF score >= 350 THEN "Low Substance"
  ELSE "Minimal Substance"

Substance_create_result(score, reason) ==
  [ total_score |-> score, information_density |-> 0, depth_score |-> 0,
    value_indicators |-> 0, structure_score |-> 0, penalties |-> 0,
    classification |-> reason ]

\* Variant: the label is taken from the points before the penalties.
Substance_analyze_post_unpenalised_label(text) ==
  IF Falsy(text) \/ text.strip_len < 50
  THEN Substance_create_result(0, "Too short")
  ELSE LET points == Substance_score_information_density(text)
                     + Substance_score_depth(text)
                     + Substance_score_value_indicators(text)
                     + Substance_score_structure(text)
           total  == Max(0, points - Substance_calculate_penalties(text))
       IN [ total_score |-> Min(1000, total),
            information_density |-> Substance_score_information_density(text),
            depth_score |-> Substance_score_depth(text),
            value_indicators |-> Substance_score_value_indicators(text),
            structure_score |-> Substance_score_structure(text),
            penalties |-> Substance_calculate_penalties(text),
            classification |-> Substance_classify_substance(Min(1000, points)) ]

\* Variant: the gate is at 30 characters, as in the other two scorers.
Substance_analyze_post_gate30(text) ==
  IF Falsy(text) \/ text.strip_len < 30
  THEN Substance_create_result(0, "Too short")
  ELSE LET info_density    == Substance_score_information_density(text)
           depth_score     == Substance_score_depth(text)
           value_score     == Substance_score_value_indicators(text)
           structure_score == Substance_score_structure(text)
           penalties       == Substance_calculate_penalties(text)
           total_score     == Max(0, info_density + depth_score + value_score
                                     + structure_score - penalties)
           normalized_score == Min(1000, total_score)
       IN [ total_score |-> normalized_score,
            information_density |-> info_density,
            depth_score |-> depth_score,
            value_indicators |-> value_score,
            structure_score |-> structure_score,
            penalties |-> penalties,
            classification |-> Substance_classify_substance(normalized_score) ]

Substance_analyze_post(text) ==
  IF Falsy(text) \/ text.strip_len < 50
  THEN Substance_create_result(0, "Too short")
  ELSE LET info_density    == Substance_score_information_density(text)
           depth_score     == Substance_score_depth(text)
           value_score     == Substance_score_value_indicators(text)
           structure_score == Substance_score_structure(text)
           penalties       == Substance_calculate_penalties(text)
           total_score     == Max(0, info_density + depth_score + value_score
                                     + structure_score - penalties)
           normalized_score == Min(1000, total_score)
       IN [ total_score |-> normalized_score,
            information_density |-> info_density,
            depth_score |-> depth_score,
            value_indicators |-> value_score,
            structure_score |-> structure_score,
            penalties |-> penalties,
            classification |-> Substance_classify_substance(normalized_score) ]

(***************************************************************************)
(* QualityAssessor                                                         *)
(***************************************************************************)
\* Variant: a failing grade call keeps the ease term and adds the neutral
\* value for the rest.
Quality_score_readability_keeps_terms(text) ==
  LET flesch == text.flesch
      ease   == IF 500 <= flesch /\ flesch <= 700 THEN 100
                ELSE IF (400 <= flesch /\ flesch < 500)
                        \/ (700 < flesch /\ flesch <= 800) THEN 70
                ELSE IF flesch > 300 THEN 40
                ELSE 0
      grade_level == text.grade
      grade  == IF 80 <= grade_level /\ grade_level <= 120 THEN 100
                ELSE IF (60 <= grade_level /\ grade_level < 80)
                        \/ (120 < grade_level /\ grade_level <= 140) THEN 70
                ELSE IF grade_level < 160 THEN 40
                ELSE 0
      variation == IF text.sentences > 1 /\ text.sent_varied THEN 50 ELSE 0
      score  == IF text.flesch_ok /\ text.grade_ok
                THEN ease + grade + variation
                ELSE IF text.flesch_ok THEN ease + 120
                ELSE 120
  IN Min(250, score)

Quality_score_readability(text) ==
  LET flesch == text.flesch
      ease   == IF 500 <= flesch /\ flesch <= 700 THEN 100
                ELSE IF (400 <= flesch /\ flesch < 500)
                        \/ (700 < flesch /\ flesch <= 800) THEN 70
                ELSE IF flesch > 300 THEN 40
                ELSE 0
      grade_level == text.grade
      grade  == IF 80 <= grade_level /\ grade_level <= 120 THEN 100
                ELSE IF (60 <= grade_level /\ grade_level < 80)
                        \/ (120 < grade_level /\ grade_level <= 140) THEN 70
                ELSE IF grade_level < 160 THEN 40
                ELSE 0
      variation == IF text.sentences > 1 /\ text.sent_varied THEN 50 ELSE 0
      \* the bare except replaces whatever was accumulated by 12
      score  == IF text.flesch_ok /\ text.grade_ok
                THEN ease + grade + variation
                ELSE 120
  IN Min(250, score)

Quality_score_structure(text) ==
  LET paras == IF text.paragraphs >= 3 THEN 60
               ELSE IF text.paragraphs >= 2 THEN 40
               ELSE 0
      breaks == IF text.newlines >= 5 THEN 40 ELSE 0
      \* lines is non-empty exactly when the text has a non-blank character
      opening == IF text.strip_len > 0
                    /\ 5 <= text.first_line_words /\ text.first_line_words <= 20
                 THEN 50 ELSE 0
      has_bullets == text.bullet \/ text.dash_items >= 2
      has_numbers == text.numbered_items > 0
      lists == IF has_bullets \/ has_numbers THEN 50 ELSE 0
      flow  == Min(50, text.transitions * 15)
  IN Min(250, paras + breaks + opening + lists + flow)

Quality_score_professionalism(text) ==
  LET vocab == Min(50, text.prof_words * 8)
      emoji == IF text.emoji_q = 0 THEN 30
               ELSE IF 1 <= text.emoji_q /\ text.emoji_q <= 5 THEN 20
               ELSE IF text.emoji_q > 10 THEN -30
               ELSE 0
      caps  == IF text.caps3 > 5 THEN -30 ELSE 0
      sign  == IF text.signoff THEN 20 ELSE 0
  IN Min(250, Max(0, 150 + vocab + emoji + caps + sign))

Quality_score_grammar_clarity(text) ==
  LET complete == IF 10 * text.lines_complete > 7 * Max(text.lines_long, 1)
                  THEN 50 ELSE 0
      runon    == IF 10 * text.long_sentences < 2 * Max(text.sentences, 1)
                  THEN 30 ELSE 0
      \* comma_ratio = commas / max(words, 1) * 100, compared exactly
      w        == Max(text.words, 1)
      comma    == IF w <= 100 * text.commas /\ 100 * text.commas <= 4 * w
                  THEN 30 ELSE 0
      total    == text.past_markers + text.present_markers
      dominant == Max(text.past_markers, text.present_markers)
      tense    == IF total > 0 /\ 10 * dominant > 7 * total THEN 40 ELSE 0
  IN Min(250, 150 + complete + runon + comma + tense)

\* Variant: 3 points for every triple-punctuation sequence.
Quality_calculate_penalties_per_sequence(text) ==
  LET click == text.clickbait * 40
      spam  == text.spam * 50
      punct == 30 * (text.triple_bang + text.triple_quest)
      caps  == IF text.caps4 > 3 THEN 40 ELSE 0
      typos == text.typos * 20
  IN Min(200, click + spam + punct + caps + typos)

\* Variant: the sum of the deductions, without the cap at 20.
Quality_calculate_penalties_uncapped(text) ==
  LET click == text.clickbait * 40
      spam  == text.spam * 50
      punct == IF text.triple_bang > 0 \/ text.triple_quest > 0 THEN 30 ELSE 0
      caps  == IF text.caps4 > 3 THEN 40 ELSE 0
      typos == text.typos * 20
  IN click + spam + punct + caps + typos

Quality_calculate_penalties(text) ==
  LET click == text.clickbait * 40
      spam  == text.spam * 50
      punct == IF text.triple_bang > 0 \/ text.triple_quest > 0 THEN 30 ELSE 0
      caps  == IF text.caps4 > 3 THEN 40 ELSE 0
      typos == text.typos * 20
  IN Min(200, click + spam + punct + caps + typos)

Quality_classify_quality(score) ==
  IF score >= 850 THEN "Exceptional Quality"
  ELSE IF score >= 700 THEN "High Quality"
  ELSE IF score >= 550 THEN "Good Quality"
  ELSE IF score >= 400 THEN "Moderate Quality"
  ELSE "Low Quality"

\* f"Grade {round(grade, 1)}" is kept as the pair of the word and the tenths
Quality_get_readability_grade(text) ==
  IF text.grade_ok THEN <<"Grade", text.grade>> ELSE <<"N/A">>

Quality_create_result(score, reason) ==
  [ total_score |-> score, readability |-> 0, structure |-> 0,
    professionalism |-> 0, grammar_clarity |-> 0, penalties |-> 0,
    classification |-> reason, readability_grade |-> <<"N/A">> ]

\* Variant: the length gate is one character lower.
Quality_analyze_post_gate29(text) ==
  IF Falsy(text) \/ text.strip_len < 29
  THEN Quality_create_result(0, "Too short")
  ELSE LET total == Max(0, Quality_score_readability(text)
                           + Quality_score_structure(text)
                           + Quality_score_professionalism(text)
                           + Quality_score_grammar_clarity(text)
                           - Quality_calculate_penalties(text))
       IN [ total_score |-> Min(1000, total),
            readability |-> Quality_score_readability(text),
            structure |-> Quality_score_structure(text),
            professionalism |-> Quality_score_professionalism(text),
            grammar_clarity |-> Quality_score_grammar_clarity(text),
            penalties |-> Quality_calculate_penalties(text),
            classification |-> Quality_classify_quality(Min(1000, total)),
            readability_grade |-> Quality_get_readability_grade(text) ]

Quality_analyze_post(text) ==
  IF Falsy(text) \/ text.strip_len < 30
  THEN Quality_create_result(0, "Too short")
  ELSE LET readability     == Quality_score_readability(text)
           structure       == Quality_score_structure(text)
           professionalism == Quality_score_professionalism(text)
           grammar         == Quality_score_grammar_clarity(text)
           penalties       == Quality_calculate_penalties(text)
           total_score     == Max(0, readability + structure + professionalism
                                     + grammar - penalties)
           normalized_score == Min(1000, total_score)
       IN [ total_score |-> normalized_score,
            readability |-> readability,
            structure |-> structure,
            professionalism |-> professionalism,
            grammar_clarity |-> grammar,
            penalties |-> penalties,
            classification |-> Quality_classify_quality(normalized_score),
            readability_grade |-> Quality_get_readability_grade(text) ]

(***************************************************************************)
(* UniquenessDetector                                                      *)
(***************************************************************************)
Uniqueness_score_personal_story(text) ==
  LET pron   == Min(60, text.pronouns * 3)
      story  == Min(80, text.personal_phrases * 25)
      time   == Min(50, text.time_refs * 20)
      \* re.findall over every sentence but the first, first tokens included
      named  == Min(60, (text.caps_later_initial + text.caps_later_inner) * 8)
  IN Min(250, pron + story + time + named)

Uniqueness_score_originality(text) ==
  LET orig   == Min(80, text.orig_phrases * 25)
      contra == Min(60, text.contrarian * 30)
      quest  == Min(50, text.questions * 15)
      rare   == Min(60, text.rare_words * 8)
  IN Min(250, orig + contra + quest + rare)

Uniqueness_score_specificity(text) ==
  LET nums   == Min(80, text.numbers * 15)
      brand  == Min(50, text.branded * 20)
      act    == Min(60, text.actions * 20)
      \* avg_word_length = sum(word_lengths) / len(word_lengths), or 0
      jargon == IF text.words > 0 /\ 10 * text.word_chars > 55 * text.words
                THEN 60
                ELSE IF text.words > 0 /\ 10 * text.word_chars > 50 * text.words
                     THEN 40
                     ELSE 0
  IN Min(250, nums + brand + act + jargon)

Uniqueness_calculate_penalties(text) ==
  LET generic == text.generic * 30
      buzz    == text.buzz * 20
      quote   == IF text.quotes /\ ~text.said /\ text.chars < 200
                 THEN 30 ELSE 0
      copied  == IF text.copy_marker THEN 40 ELSE 0
  IN Min(150, generic + buzz + quote + copied)

\* Variant: "Very Unique" starts at 70 instead of 65.
Uniqueness_classify_uniqueness_70(score) ==
  IF score >= 800 THEN "Highly Unique"
  ELSE IF score >= 700 THEN "Very Unique"
  ELSE IF score >= 500 THEN "Moderately Unique"
  ELSE IF score >= 350 THEN "Somewhat Generic"
  ELSE "Very Generic"

Uniqueness_classify_uniqueness(score) ==
  IF score >= 800 THEN "Highly Unique"
  ELSE IF score >= 650 THEN "Very Unique"
  ELSE IF score >= 500 THEN "Moderately Unique"
  ELSE IF score >= 350 THEN "Somewhat Generic"
  ELSE "Very Generic"

Uniqueness_create_result(score, reason) ==
  [ total_score |-> score, personal_story |-> 0, original_thinking |-> 0,
    specificity |-> 0, uniqueness_vs_corpus |-> 0, penalties |-> 0,
    classification |-> reason ]

\* tfidf_matrix[post_index]: Python indexing, 0-based, negative from the end;
\* 0 when the index addresses no row (IndexError).
\* Variant: an index past the end addresses the last row.
RowOf_clamped(matrix, post_index) ==
  IF 0 <= post_index /\ post_index < Len(matrix) THEN post_index + 1
  ELSE IF post_index < 0 /\ post_index >= -Len(matrix)
       THEN Len(matrix) + post_index + 1
       ELSE IF post_index >= Len(matrix) THEN Len(matrix) ELSE 0

RowOf(matrix, post_index) ==
  IF 0 <= post_index /\ post_index < Len(matrix) THEN post_index + 1
  ELSE IF post_index < 0 /\ post_index >= -Len(matrix)
       THEN Len(matrix) + post_index + 1
       ELSE 0

RECURSIVE SumOver(_, _)
SumOver(row, cols) ==
  IF cols = {} THEN 0
  ELSE LET c == CHOOSE x \in cols : TRUE
       IN row[c] + SumOver(row, cols \ {c})

\* Variant: the upper end of each band belongs to it.
SimilarityBand_inclusive(total, count) ==
  IF count = 0 THEN 50
  ELSE IF total <= 100 * count THEN 250
  ELSE IF total <= 200 * count THEN 200
  ELSE IF total <= 300 * count THEN 150
  ELSE IF total <= 400 * count THEN 100
  ELSE 50

\* The band of avg_similarity = total / count (thousandths).  With count = 0
\* np.mean of the empty array is nan, every comparison is False and the
\* else branch is taken.
SimilarityBand(total, count) ==
  IF count = 0 THEN 50
  ELSE IF total < 100 * count THEN 250
  ELSE IF total < 200 * count THEN 200
  ELSE IF total < 300 * count THEN 150
  ELSE IF total < 400 * count THEN 100
  ELSE 50

\* Variant: the post's similarity to itself stays in the mean.
Uniqueness_score_similarity_with_self(matrix, post_index) ==
  IF matrix = None \/ post_index = None THEN 125
  ELSE LET r == RowOf(matrix[1], post_index[1])
       IN IF r = 0 THEN 125
          ELSE SimilarityBand(SumOver(matrix[1][r], 1..Len(matrix[1][r])),
                              Len(matrix[1][r]))

\* Variant: without a matrix the component is worth nothing.
Uniqueness_score_similarity_zero_without_matrix(matrix, post_index) ==
  IF matrix = None THEN 0
  ELSE IF post_index = None THEN 125
  ELSE LET r == RowOf(matrix[1], post_index[1])
       IN IF r = 0 THEN 125
          ELSE SimilarityBand(SumOver(matrix[1][r], (1..Len(matrix[1][r])) \ {r}),
                              Len(matrix[1][r]) - 1)

\* The matrix is kept as the cosine similarities of its rows:
\* matrix[r][c] is cosine_similarity(matrix[r], matrix)[c].
Uniqueness_score_similarity(matrix, post_index) ==
  IF matrix = None \/ post_index = None THEN 125
  ELSE LET r == RowOf(matrix[1], post_index[1])
       IN IF r = 0 THEN 125   \* the bare except
          ELSE LET similarities == matrix[1][r]
                   \* np.delete(similarities, post_index)
                   others == (1..Len(similarities)) \ {r}
               IN SimilarityBand(SumOver(similarities, others),
                                 Cardinality(others))

\* Variant: the gate of SubstanceDetector, 50 characters.
Uniqueness_analyze_post_gate50(matrix, text, post_index) ==
  IF Falsy(text) \/ text.strip_len < 50
  THEN Uniqueness_create_result(0, "Too short")
  ELSE LET personal_score    == Uniqueness_score_personal_story(text)
           originality_score == Uniqueness_score_originality(text)
           specificity_score == Uniqueness_score_specificity(text)
           similarity_score  == IF post_index # None
                                THEN Uniqueness_score_similarity(matrix, post_index)
                                ELSE 125
           penalties         == Uniqueness_calculate_penalties(text)
           total_score       == Max(0, personal_score + originality_score
                                       + specificity_score + similarity_score
                                       - penalties)
           normalized_score  == Min(1000, total_score)
       IN [ total_score |-> normalized_score,
            personal_story |-> personal_score,
            original_thinking |-> originality_score,
            specificity |-> specificity_score,
            uniqueness_vs_corpus |-> similarity_score,
            penalties |-> penalties,
            classification |-> Uniqueness_classify_uniqueness(normalized_score) ]

\* Variant: the similarity is looked up only for texts of 50 characters or
\* more; shorter texts get the neutral value.
Uniqueness_analyze_post_similarity_gate50(matrix, text, post_index) ==
  IF Falsy(text) \/ text.strip_len < 30
  THEN Uniqueness_create_result(0, "Too short")
  ELSE LET personal_score    == Uniqueness_score_personal_story(text)
           originality_score == Uniqueness_score_originality(text)
           specificity_score == Uniqueness_score_specificity(text)
           similarity_score  == IF post_index # None /\ text.strip_len >= 50
                                THEN Uniqueness_score_similarity(matrix, post_index)
                                ELSE 125
           penalties         == Uniqueness_calculate_penalties(text)
           total_score       == Max(0, personal_score + originality_score
                                       + specificity_score + similarity_score
                                       - penalties)
           normalized_score  == Min(1000, total_score)
       IN [ total_score |-> normalized_score,
            personal_story |-> personal_score,
            original_thinking |-> originality_score,
            specificity |-> specificity_score,
            uniqueness_vs_corpus |-> similarity_score,
            penalties |-> penalties,
            classification |-> Uniqueness_classify_uniqueness(normalized_score) ]

Uniqueness_analyze_post(matrix, text, post_index) ==
  IF Falsy(text) \/ text.strip_len < 30
  THEN Uniqueness_create_result(0, "Too short")
  ELSE LET personal_score    == Uniqueness_score_personal_story(text)
           originality_score == Uniqueness_score_originality(text)
           specificity_score == Uniqueness_score_specificity(text)
           similarity_score  == IF post_index # None
                                THEN Uniqueness_score_similarity(matrix, post_index)
                                ELSE 125
           penalties         == Uniqueness_calculate_penalties(text)
           total_score       == Max(0, personal_score + originality_score
                                       + specificity_score + similarity_score
                                       - penalties)
           normalized_score  == Min(1000, total_score)
       IN [ total_score |-> normalized_score,
            personal_story |-> personal_score,
            original_thinking |-> originality_score,
            specificity |-> specificity_score,
            uniqueness_vs_corpus |-> similarity_score,
            penalties |-> penalties,
            classification |-> Uniqueness_classify_uniqueness(normalized_score) ]

(***************************************************************************)
(* The corpus index: prepare_corpus                                        *)
(***************************************************************************)
min_df == 2

\* Cosine similarities (thousandths) two different rows of a fitted matrix
\* may have.  DirectSimValues meet every band of _score_similarity and each
\* of its thresholds with a single other row; the means of two of SimValues
\* meet the bands 25, 15 and 5.
SimValues == {0, 400}
DirectSimValues == {0, 100, 200, 300, 400}

Pairs(n) == { p \in (1..n) \X (1..n) : p[1] < p[2] }

\* The matrices fit_transform may return for these texts, as the cosine
\* similarities of their rows: symmetric, a row with a kept term is at 1
\* with itself, a row without one is the zero vector.
Matrices(texts, sims) ==
  LET n == Len(texts)
      kept(r) == Readings(texts[r]).tokens
  IN { [r \in 1..n |-> [c \in 1..n |->
          IF ~kept(r) \/ ~kept(c) THEN 0
          ELSE IF r = c THEN 1000
          ELSE f[<<Min(r, c), Max(r, c)>>]]] : f \in [Pairs(n) -> sims] }

\* self.vectorizer.fit_transform(self.all_posts_text) with min_df=2: a term is
\* kept only if at least min_df texts have it, and fit_transform raises
\* ValueError when no term is kept; the bare except then leaves None.
\* Variant: the fit succeeds on any corpus.
FitTransform_always_fits(texts, sims) ==
  { Some(m) : m \in Matrices(texts, sims) }

FitTransform(texts, sims) ==
  IF \/ \E r \in 1..Len(texts) : Readings(texts[r]).is_none
     \/ Cardinality({r \in 1..Len(texts) : Readings(texts[r]).tokens}) < min_df
  THEN {None}
  ELSE {None} \cup { Some(m) : m \in Matrices(texts, sims) }

\* Variant: posts without text are left out of the corpus.
prepare_corpus_skipping_empty(posts, sims) ==
  LET NotEmpty(t) == ~Falsy(Readings(t))
      texts == SelectSeq([r \in 1..Len(posts) |-> PostText(posts[r])], NotEmpty)
  IN { [ all_posts_text |-> texts,
         vectorizer |-> IF m = None THEN "unfitted" ELSE "fitted",
         tfidf_matrix |-> m ] : m \in FitTransform(texts, sims) }

\* The detector states prepare_corpus(posts) may leave.
prepare_corpus(posts, sims) ==
  LET texts == [r \in 1..Len(posts) |-> PostText(posts[r])]
  IN { [ all_posts_text |-> texts,
         vectorizer |-> IF m = None THEN "unfitted" ELSE "fitted",
         tfidf_matrix |-> m ] : m \in FitTransform(texts, sims) }

(***************************************************************************)
(* The composite score and the ranking (master_analysis.py)                *)
(***************************************************************************)
\* The weighted sum of lines 54-58, in thousandths: totals are tenths, so
\* total * 0.35 is 35 * total thousandths.
\* Variant: the weights of quality and uniqueness are exchanged.
composite_score_weights_swapped(substance, quality, uniqueness) ==
  substance.total_score * 35 + quality.total_score * 35
  + uniqueness.total_score * 30

\* Variant: quality counts against the post.
composite_score_quality_inverted(substance, quality, uniqueness) ==
  substance.total_score * 35 + (1000 - quality.total_score) * 30
  + uniqueness.total_score * 35

composite_score(substance, quality, uniqueness) ==
  substance.total_score * 35 + quality.total_score * 30
  + uniqueness.total_score * 35

\* round(x, 2) of x thousandths: the hundredths it may give.  The float sum
\* carries an error far below a thousandth, so the nearest hundredth is
\* returned; when the exact sum lies halfway, the sign of the float error
\* decides and either neighbour may come out.
round2(x) ==
  LET q == x \div 10
      r == x % 10
  IN IF r < 5 THEN {q}
     ELSE IF r > 5 THEN {q + 1}
     ELSE {q, q + 1}

\* The record analyze_all_content appends for posts[i] (i counted from 0),
\* its composite_score rounded to `rounded`.
analyze_one(matrix, post, i, rounded) ==
  LET text       == Readings(PostText(post))
      substance  == Substance_analyze_post(text)
      quality    == Quality_analyze_post(text)
      uniqueness == Uniqueness_analyze_post(matrix, text, Some(i))
  IN [ word_count |-> text.words,
       composite_score |-> rounded,
       substance_score |-> substance.total_score,
       substance_classification |-> substance.classification,
       info_density |-> substance.information_density,
       depth |-> substance.depth_score,
       value_indicators |-> substance.value_indicators,
       quality_score |-> quality.total_score,
       quality_classification |-> quality.classification,
       readability |-> quality.readability,
       structure |-> quality.structure,
       professionalism |-> quality.professionalism,
       readability_grade |-> quality.readability_grade,
       uniqueness_score |-> uniqueness.total_score,
       uniqueness_classification |-> uniqueness.classification,
       personal_story |-> uniqueness.personal_story,
       original_thinking |-> uniqueness.original_thinking,
       specificity |-> uniqueness.specificity,
       uniqueness_vs_corpus |-> uniqueness.uniqueness_vs_corpus ]

\* sorted(results, key=composite_score, reverse=True): Python's sort is
\* stable, also with reverse=True.  x, the later element, goes behind every
\* element whose key is not smaller.
\* Variant: the later element goes in front of the elements with its key.
InsertByScore_before_equals(sorted, x) ==
  LET p == Cardinality({ j \in 1..Len(sorted) :
                           sorted[j].composite_score > x.composite_score })
  IN SubSeq(sorted, 1, p) \o <<x>> \o SubSeq(sorted, p + 1, Len(sorted))

InsertByScore(sorted, x) ==
  LET p == Cardinality({ j \in 1..Len(sorted) :
                           sorted[j].composite_score >= x.composite_score })
  IN SubSeq(sorted, 1, p) \o <<x>> \o SubSeq(sorted, p + 1, Len(sorted))

RECURSIVE SortedByScore(_)
SortedByScore(results) ==
  IF results = <<>> THEN <<>>
  ELSE InsertByScore(SortedByScore(SubSeq(results, 1, Len(results) - 1)),
                     results[Len(results)])

(***************************************************************************)
(* State                                                                   *)
(***************************************************************************)
VARIABLES
  posts,          \* the loaded batch (analyze_all_content's posts)
  pc,             \* position in the batch run
  i,              \* the loop index of analyze_all_content
  all_results,    \* the records appended so far
  results_sorted, \* generate_reports' ranking
  all_posts_text, \* UniquenessDetector.all_posts_text
  vectorizer,     \* UniquenessDetector.vectorizer: None, unfitted or fitted
  tfidf_matrix,   \* UniquenessDetector.tfidf_matrix
  call,           \* the latest direct analyze_post call
  ret,            \* ... and the record it returned
  combined,       \* the latest two composite computations on given totals
  workers         \* the analyze_post calls in progress on a shared detector

pipeline == <<posts, pc, i, all_results, results_sorted>>
detector == <<all_posts_text, vectorizer, tfidf_matrix>>
direct   == <<call, ret>>
vars     == <<posts, pc, i, all_results, results_sorted,
              all_posts_text, vectorizer, tfidf_matrix, call, ret, combined, workers>>

MaxPosts == 3

RECURSIVE Batches(_, _)
Batches(of, n) ==
  IF n = 0 THEN {<<>>}
  ELSE LET shorter == Batches(of, n - 1)
       IN shorter \cup { Append(b, p) : b \in { x \in shorter : Len(x) = n - 1 },
                                         p \in of }

NoCall == [scorer |-> "none", text |-> Text("empty", 0, NoLevels),
           post_index |-> None]

\* UniquenessDetector.__init__
FreshDetector ==
  /\ all_posts_text = <<>>
  /\ vectorizer = "None"
  /\ tfidf_matrix = None

(***************************************************************************)
(* The batch run: analyze_all_content, then generate_reports               *)
(***************************************************************************)
Init ==
  /\ posts \in Batches(BatchPosts, MaxPosts)
  /\ pc = "prepare"
  /\ i = 0
  /\ all_results = <<>>
  /\ results_sorted = <<>>
  /\ FreshDetector
  /\ call = NoCall
  /\ ret = <<>>
  /\ combined = <<>>
  /\ workers = <<>>

\* Variant: the loop is entered without preparing the corpus.
PrepareCorpus_skipped ==
  /\ pc = "prepare"
  /\ pc' = "loop"
  /\ UNCHANGED <<posts, i, all_results, results_sorted, detector, call, ret, combined, workers>>

PrepareCorpus ==
  /\ pc = "prepare"
  /\ \E d \in prepare_corpus(posts, SimValues) :
       /\ all_posts_text' = d.all_posts_text
       /\ vectorizer' = d.vectorizer
       /\ tfidf_matrix' = d.tfidf_matrix
  /\ pc' = "loop"
  /\ UNCHANGED <<posts, i, all_results, results_sorted, call, ret, combined, workers>>

\* One pass of the loop body.  Equal totals give the same float sum, hence
\* the same rounding.
AnalyzeStep ==
  /\ pc = "loop"
  /\ i < Len(posts)
  /\ ~Readings(PostText(posts[i + 1])).is_none
  /\ LET text       == Readings(PostText(posts[i + 1]))
         substance  == Substance_analyze_post(text)
         quality    == Quality_analyze_post(text)
         uniqueness == Uniqueness_analyze_post(tfidf_matrix, text, Some(i))
     IN \E rounded \in round2(composite_score(substance, quality, uniqueness)) :
          /\ \A r \in Range(all_results) :
               /\ r.substance_score = substance.total_score
               /\ r.quality_score = quality.total_score
               /\ r.uniqueness_score = uniqueness.total_score
               => r.composite_score = rounded
          /\ all_results' = Append(all_results,
                                   analyze_one(tfidf_matrix, posts[i + 1], i, rounded))
  /\ i' = i + 1
  /\ UNCHANGED <<posts, pc, results_sorted, detector, call, ret, combined, workers>>

\* The three scorers return their too-short records for None; then
\* len(text.split()) of line 69 raises, and nothing catches it.
AnalyzeRaises ==
  /\ pc = "loop"
  /\ i < Len(posts)
  /\ Readings(PostText(posts[i + 1])).is_none
  /\ pc' = "AttributeError"
  /\ UNCHANGED <<posts, i, all_results, results_sorted, detector, call, ret, combined, workers>>

ReturnResults ==
  /\ pc = "loop"
  /\ i = Len(posts)
  /\ pc' = "returned"
  /\ UNCHANGED <<posts, i, all_results, results_sorted, detector, call, ret, combined, workers>>

\* The ranking is made first; the averages that follow divide by
\* len(results).
GenerateReports ==
  /\ pc = "returned"
  /\ results_sorted' = SortedByScore(all_results)
  /\ pc' = IF Len(all_results) = 0 THEN "ZeroDivisionError" ELSE "done"
  /\ UNCHANGED <<posts, i, all_results, detector, call, ret, combined, workers>>

Next ==
  PrepareCorpus \/ AnalyzeStep \/ AnalyzeRaises \/ ReturnResults
  \/ GenerateReports

Spec == Init /\ [][Next]_vars

(***************************************************************************)
(* The two batch entry points that use the corpus: analyze_all_content     *)
(* above and uniqueness.analyze_all_posts                                  *)
(***************************************************************************)
\* results.append({..., 'word_count': ..., **analysis})
analyze_all_posts_record(matrix, post, index) ==
  LET text == Readings(PostText(post))
      analysis == Uniqueness_analyze_post(matrix, text, Some(index))
  IN [ word_count |-> text.words,
       total_score |-> analysis.total_score,
       personal_story |-> analysis.personal_story,
       original_thinking |-> analysis.original_thinking,
       specificity |-> analysis.specificity,
       uniqueness_vs_corpus |-> analysis.uniqueness_vs_corpus,
       penalties |-> analysis.penalties,
       classification |-> analysis.classification ]

InitPipelines ==
  /\ posts \in Batches(BatchPosts, MaxPosts)
  /\ pc \in {"prepare", "u_prepare"}
  /\ i = 0
  /\ all_results = <<>>
  /\ results_sorted = <<>>
  /\ FreshDetector
  /\ call = NoCall
  /\ ret = <<>>
  /\ combined = <<>>
  /\ workers = <<>>

UniquenessPrepareCorpus ==
  /\ pc = "u_prepare"
  /\ \E d \in prepare_corpus(posts, SimValues) :
       /\ all_posts_text' = d.all_posts_text
       /\ vectorizer' = d.vectorizer
       /\ tfidf_matrix' = d.tfidf_matrix
  /\ pc' = "u_loop"
  /\ UNCHANGED <<posts, i, all_results, results_sorted, call, ret, combined, workers>>

UniquenessAnalyzeStep ==
  /\ pc = "u_loop"
  /\ i < Len(posts)
  /\ ~Readings(PostText(posts[i + 1])).is_none
  /\ all_results' = Append(all_results,
                           analyze_all_posts_record(tfidf_matrix, posts[i + 1], i))
  /\ i' = i + 1
  /\ UNCHANGED <<posts, pc, results_sorted, detector, call, ret, combined, workers>>

\* analyze_post returns the too-short record for None; then len(text) of
\* the preview raises.
UniquenessAnalyzeRaises ==
  /\ pc = "u_loop"
  /\ i < Len(posts)
  /\ Readings(PostText(posts[i + 1])).is_none
  /\ pc' = "TypeError"
  /\ UNCHANGED <<posts, i, all_results, results_sorted, detector, call, ret, combined, workers>>

UniquenessReturnResults ==
  /\ pc = "u_loop"
  /\ i = Len(posts)
  /\ pc' = "u_returned"
  /\ UNCHANGED <<posts, i, all_results, results_sorted, detector, call, ret, combined, workers>>

NextPipelines ==
  Next \/ UniquenessPrepareCorpus \/ UniquenessAnalyzeStep
  \/ UniquenessAnalyzeRaises \/ UniquenessReturnResults

SpecPipelines == InitPipelines /\ [][NextPipelines]_vars

(***************************************************************************)
(* Direct use of the scorers: any analyze_post call, on a detector whose   *)
(* corpus was never prepared or was prepared on some small corpus.         *)
(***************************************************************************)
MaxRows == 2

CorpusPosts == { Post(TRUE, Text("rich", 0, NoLevels)) }
PostIndexes == {None} \cup { Some(n) : n \in -1..MaxRows }

InitCalls ==
  /\ posts = <<>>
  /\ pc = "idle"
  /\ i = 0
  /\ all_results = <<>>
  /\ results_sorted = <<>>
  /\ FreshDetector
  /\ call = NoCall
  /\ ret = <<>>
  /\ combined = <<>>
  /\ workers = <<>>

\* Variant: a failed fit leaves the matrix of the previous build in place.
CallPrepareCorpus_keeping_matrix ==
  /\ call = NoCall
  /\ \E ps \in Batches(CorpusPosts, MaxRows) : \E d \in prepare_corpus(ps, DirectSimValues) :
       /\ all_posts_text' = d.all_posts_text
       /\ vectorizer' = d.vectorizer
       /\ tfidf_matrix' = IF d.tfidf_matrix = None THEN tfidf_matrix
                          ELSE d.tfidf_matrix
  /\ UNCHANGED <<pipeline, call, ret, combined, workers>>

CallPrepareCorpus ==
  /\ call = NoCall
  /\ \E ps \in Batches(CorpusPosts, MaxRows) : \E d \in prepare_corpus(ps, DirectSimValues) :
       /\ all_posts_text' = d.all_posts_text
       /\ vectorizer' = d.vectorizer
       /\ tfidf_matrix' = d.tfidf_matrix
  /\ UNCHANGED <<pipeline, call, ret, combined, workers>>

\* SubstanceDetector and QualityAssessor keep no state and share none with
\* the UniquenessDetector: the generated texts are scored beside a fresh
\* detector, the texts of the batches beside any detector.
DirectTexts(generated) ==
  IF FreshDetector THEN generated \cup BatchTexts ELSE BatchTexts

CallSubstance ==
  /\ call = NoCall
  /\ \E t \in DirectTexts(SubstanceTexts) :
       /\ call' = [scorer |-> "substance", text |-> t, post_index |-> None]
       /\ ret' = Substance_analyze_post(Readings(t))
  /\ UNCHANGED <<pipeline, detector, combined, workers>>

CallQuality ==
  /\ call = NoCall
  /\ \E t \in DirectTexts(QualityTexts) :
       /\ call' = [scorer |-> "quality", text |-> t, post_index |-> None]
       /\ ret' = Quality_analyze_post(Readings(t))
  /\ UNCHANGED <<pipeline, detector, combined, workers>>

\* Variant: the scored text is added to the corpus texts.
CallUniqueness_collecting ==
  /\ call = NoCall
  /\ \E t \in UniquenessTexts, idx \in PostIndexes :
       /\ call' = [scorer |-> "uniqueness", text |-> t, post_index |-> idx]
       /\ ret' = Uniqueness_analyze_post(tfidf_matrix, Readings(t), idx)
       /\ all_posts_text' = Append(all_posts_text, t)
  /\ UNCHANGED <<pipeline, vectorizer, tfidf_matrix, combined, workers>>

\* Variant: a call that gave a post_index uses the matrix up.
CallUniqueness_consuming ==
  /\ call = NoCall
  /\ \E t \in UniquenessTexts, idx \in PostIndexes :
       /\ call' = [scorer |-> "uniqueness", text |-> t, post_index |-> idx]
       /\ ret' = Uniqueness_analyze_post(tfidf_matrix, Readings(t), idx)
       /\ tfidf_matrix' = IF idx = None THEN tfidf_matrix ELSE None
  /\ UNCHANGED <<pipeline, all_posts_text, vectorizer, combined, workers>>

CallUniqueness ==
  /\ call = NoCall
  /\ \E t \in UniquenessTexts, idx \in PostIndexes :
       /\ call' = [scorer |-> "uniqueness", text |-> t, post_index |-> idx]
       /\ ret' = Uniqueness_analyze_post(tfidf_matrix, Readings(t), idx)
  /\ UNCHANGED <<pipeline, detector, combined, workers>>

\* The caller is done with the returned record and may call again; the
\* scorers keep nothing of a call.
DropResult ==
  /\ call # NoCall
  /\ call' = NoCall
  /\ ret' = <<>>
  /\ UNCHANGED <<pipeline, detector, combined, workers>>

NextCalls ==
  CallPrepareCorpus \/ CallSubstance \/ CallQuality \/ CallUniqueness
  \/ DropResult

SpecCalls == InitCalls /\ [][NextCalls]_vars

(***************************************************************************)
(* Concurrent scoring: after prepare_corpus, workers that share the        *)
(* detector take the posts of the batch one by one and run                 *)
(* analyze_post(text, post_index) on them, a read of the detector at a     *)
(* time.  text and post_index are parameters, hence local to a call.       *)
(***************************************************************************)
Workers == {"w1", "w2"}

\* two texts that are scored and one that stops at the gate
WorkerPosts ==
  { Post(TRUE, t) : t \in BatchTexts \ {Text("short", 0, NoLevels)} }

Idle == [ pc |-> "idle", post_index |-> None, post_vector |-> 0,
          similarities |-> <<>>, similarity_score |-> 0 ]

InitWorkers ==
  /\ posts \in Batches(WorkerPosts, MaxPosts)
  /\ pc = "prepare"
  /\ i = 0
  /\ all_results = {}
  /\ results_sorted = <<>>
  /\ FreshDetector
  /\ call = NoCall
  /\ ret = <<>>
  /\ combined = <<>>
  /\ workers = [w \in Workers |-> Idle]

\* Variant: post_index is kept in a field of the shared detector, which
\* holds the index of the call that started last.
WorkerIndex_shared(w) == i - 1

\* the post_index parameter of worker w's call
WorkerIndex(w) == workers[w].post_index[1]

WorkerText(w) == Readings(PostText(posts[workers[w].post_index[1] + 1]))

WorkerSets(w, fields) ==
  /\ workers' = [workers EXCEPT ![w] = fields]
  /\ UNCHANGED <<posts, pc, results_sorted, detector, call, ret, combined>>

WorkerReturns(w, record) ==
  /\ all_results' = all_results
                      \cup {[post_index |-> workers[w].post_index[1], record |-> record]}
  /\ workers' = [workers EXCEPT ![w] = Idle]
  /\ UNCHANGED <<posts, pc, i, results_sorted, detector, call, ret, combined>>

\* a worker takes the next post of the batch and calls analyze_post
WorkerCall(w) ==
  /\ pc = "loop"
  /\ workers[w].pc = "idle"
  /\ i < Len(posts)
  /\ i' = i + 1
  /\ WorkerSets(w, [Idle EXCEPT !.pc = "gate", !.post_index = Some(i)])
  /\ UNCHANGED all_results

\* lines 165-166
WorkerGate(w) ==
  /\ workers[w].pc = "gate"
  /\ IF Falsy(WorkerText(w)) \/ WorkerText(w).strip_len < 30
     THEN WorkerReturns(w, Uniqueness_create_result(0, "Too short"))
     ELSE WorkerSets(w, [workers[w] EXCEPT !.pc = "vector"])
          /\ UNCHANGED <<i, all_results>>

\* lines 480-487: the None test, then tfidf_matrix[post_index]
WorkerVector(w) ==
  /\ workers[w].pc = "vector"
  /\ LET r == IF tfidf_matrix = None THEN 0
              ELSE RowOf(tfidf_matrix[1], WorkerIndex(w))
     IN WorkerSets(w, IF r = 0
                      THEN [workers[w] EXCEPT !.pc = "total",
                                              !.similarity_score = 125]
                      ELSE [workers[w] EXCEPT !.pc = "cosine",
                                              !.post_vector = r])
  /\ UNCHANGED <<i, all_results>>

\* line 491: cosine_similarity(post_vector, self.tfidf_matrix)
WorkerCosine(w) ==
  /\ workers[w].pc = "cosine"
  /\ WorkerSets(w, [workers[w] EXCEPT
                      !.pc = "band",
                      !.similarities = tfidf_matrix[1][workers[w].post_vector]])
  /\ UNCHANGED <<i, all_results>>

\* lines 496-517: np.delete(similarities, post_index), the mean, the band
WorkerBand(w) ==
  /\ workers[w].pc = "band"
  /\ LET similarities == workers[w].similarities
         r == RowOf(similarities, WorkerIndex(w))
         others == (1..Len(similarities)) \ {r}
     IN WorkerSets(w, [workers[w] EXCEPT
                         !.pc = "total",
                         !.similarity_score =
                           IF r = 0 THEN 125
                           ELSE SimilarityBand(SumOver(similarities, others),
                                               Cardinality(others))])
  /\ UNCHANGED <<i, all_results>>

\* lines 186-205: the penalties, the total and the record
WorkerTotal(w) ==
  /\ workers[w].pc = "total"
  /\ LET text == WorkerText(w)
         personal_score    == Uniqueness_score_personal_story(text)
         originality_score == Uniqueness_score_originality(text)
         specificity_score == Uniqueness_score_specificity(text)
         similarity_score  == workers[w].similarity_score
         penalties         == Uniqueness_calculate_penalties(text)
         normalized_score  == Min(1000, Max(0, personal_score + originality_score
                                                + specificity_score
                                                + similarity_score - penalties))
     IN WorkerReturns(w, [ total_score |-> normalized_score,
                           personal_story |-> personal_score,
                           original_thinking |-> originality_score,
                           specificity |-> specificity_score,
                           uniqueness_vs_corpus |-> similarity_score,
                           penalties |-> penalties,
                           classification |->
                             Uniqueness_classify_uniqueness(normalized_score) ])

NextWorkers ==
  \/ PrepareCorpus
  \/ \E w \in Workers :
       \/ WorkerCall(w) \/ WorkerGate(w) \/ WorkerVector(w)
       \/ WorkerCosine(w) \/ WorkerBand(w) \/ WorkerTotal(w)

SpecWorkers == InitWorkers /\ [][NextWorkers]_vars

(***************************************************************************)
(* The composite combination on its own: the weighted sum of lines 54-58   *)
(* and the rounding of line 79, applied to any three totals.               *)
(***************************************************************************)
\* totals in tenths: the ends of [0,100], the middle, and steps of 0.1
TotalGrid == {0, 1, 2, 3, 1000}

InitComposite ==
  /\ posts = <<>>
  /\ pc = "idle"
  /\ i = 0
  /\ all_results = <<>>
  /\ results_sorted = <<>>
  /\ FreshDetector
  /\ call = NoCall
  /\ ret = <<>>
  /\ combined = <<>>
  /\ workers = <<>>

Combine ==
  /\ \E s \in TotalGrid, q \in TotalGrid, u \in TotalGrid :
       \E rounded \in round2(composite_score([total_score |-> s],
                                              [total_score |-> q],
                                              [total_score |-> u])) :
         /\ \A r \in Range(combined) :
              r.substance = s /\ r.quality = q /\ r.uniqueness = u
              => r.composite_score = rounded
         /\ combined' =
              <<[ substance |-> s, quality |-> q, uniqueness |-> u,
                  composite_score |-> rounded ]>>
              \o (IF combined = <<>> THEN <<>> ELSE <<combined[1]>>)
  /\ UNCHANGED <<pipeline, detector, direct, workers>>

NextComposite == Combine

SpecComposite == InitComposite /\ [][NextComposite]_vars

(***************************************************************************)
(* Properties                                                              *)
(***************************************************************************)
Called(scorer) == call.scorer = scorer
CalledText == Readings(call.text)

\* C1: whatever the text, the post_index and the corpus state, a returned
\* record has total_score in [0,100], every sub-score between 0 and its
\* maximum (Substance 30/25/25/20, Quality 25 each, Uniqueness 25 each) and
\* penalties in [0,15], [0,20] and [0,15].
C1_ScoreBounds ==
  /\ Called("substance") =>
       /\ ret.total_score \in 0..1000
       /\ ret.information_density \in 0..300
       /\ ret.depth_score \in 0..250
       /\ ret.value_indicators \in 0..250
       /\ ret.structure_score \in 0..200
       /\ ret.penalties \in 0..150
  /\ Called("quality") =>
       /\ ret.total_score \in 0..1000
       /\ ret.readability \in 0..250
       /\ ret.structure \in 0..250
       /\ ret.professionalism \in 0..250
       /\ ret.grammar_clarity \in 0..250
       /\ ret.penalties \in 0..200
  /\ Called("uniqueness") =>
       /\ ret.total_score \in 0..1000
       /\ ret.personal_story \in 0..250
       /\ ret.original_thinking \in 0..250
       /\ ret.specificity \in 0..250
       /\ ret.uniqueness_vs_corpus \in 0..250
       /\ ret.penalties \in 0..150

\* A Substance record whose value_indicators and penalties sit at their caps
\* although the text offers more than the caps.
C1_Witness ==
  /\ Called("substance")
  /\ SumCategories(CalledText.value_found, 7) > 250
  /\ ret.value_indicators = 250
  /\ 30 * CalledText.shallow + 50 > 150
  /\ ret.penalties = 150

TooShort(text, minimum) == text.is_none \/ text.chars = 0 \/ text.strip_len < minimum

\* C2: a text that is empty or whose trimmed length is below 50 (Substance)
\* or 30 (Quality, Uniqueness) gets total_score 0, every sub-score 0,
\* penalties 0 and the classification "Too short", whatever it contains and
\* whatever the post_index and the corpus state.
C2_TooShortIsZero ==
  /\ Called("substance") /\ TooShort(CalledText, 50) =>
       ret = [ total_score |-> 0, information_density |-> 0, depth_score |-> 0,
               value_indicators |-> 0, structure_score |-> 0, penalties |-> 0,
               classification |-> "Too short" ]
  /\ Called("quality") /\ TooShort(CalledText, 30) =>
       /\ ret.total_score = 0 /\ ret.readability = 0 /\ ret.structure = 0
       /\ ret.professionalism = 0 /\ ret.grammar_clarity = 0
       /\ ret.penalties = 0 /\ ret.classification = "Too short"
  /\ Called("uniqueness") /\ TooShort(CalledText, 30) =>
       ret = [ total_score |-> 0, personal_story |-> 0, original_thinking |-> 0,
               specificity |-> 0, uniqueness_vs_corpus |-> 0, penalties |-> 0,
               classification |-> "Too short" ]

\* A 29-character text full of clickbait, scored by Quality as too short.
C2_Witness ==
  /\ Called("quality")
  /\ CalledText.strip_len = 29
  /\ CalledText.clickbait > 0
  /\ ret.classification = "Too short"
  /\ ret.total_score = 0

\* The records each scorer returns over the texts of its family (for
\* Uniqueness: on a detector whose corpus was never prepared).
SubstanceRecords ==
  { Substance_analyze_post(Readings(t)) : t \in SubstanceTexts }
QualityRecords ==
  { Quality_analyze_post(Readings(t)) : t \in QualityTexts }
UniquenessRecords ==
  { Uniqueness_analyze_post(None, Readings(t), None) : t \in UniquenessTexts }
RecordsOf(scorer) ==
  CASE scorer = "substance"  -> SubstanceRecords
    [] scorer = "quality"    -> QualityRecords
    [] scorer = "uniqueness" -> UniquenessRecords
    [] OTHER                 -> {}

\* C3 as stated: any two records of the same scorer with equal total_score
\* carry the same classification.
C3_SameTotalSameClass ==
  \A r \in RecordsOf(call.scorer) :
    r.total_score = ret.total_score => r.classification = ret.classification

\* C3, amended: among the records of texts that passed the length gate, any
\* two records of the same scorer with equal total_score carry the same
\* classification; the record of a too-short text has total_score 0 and the
\* label "Too short", not the lowest tier.
C3_SameTotalSameClassScored ==
  \A r \in RecordsOf(call.scorer) :
    /\ r.classification # "Too short"
    /\ ret.classification # "Too short"
    /\ r.total_score = ret.total_score
    => r.classification = ret.classification

\* A scored text whose total is 0, as a too-short text's is.
C3_Witness ==
  /\ Called("substance")
  /\ ~TooShort(CalledText, 50)
  /\ ret.total_score = 0
  /\ ret.classification = "Minimal Substance"
  /\ \E r \in SubstanceRecords :
       r.total_score = 0 /\ r.classification = "Too short"

CalledScored ==
  \/ Called("substance") /\ ~TooShort(CalledText, 50)
  \/ Called("quality") /\ ~TooShort(CalledText, 30)
  \/ Called("uniqueness") /\ ~TooShort(CalledText, 30)

Clamp(lo, hi, x) == IF x < lo THEN lo ELSE IF x > hi THEN hi ELSE x

Tier(score, t1, t2, t3, t4, labels) ==
  IF score >= t1 THEN labels[1]
  ELSE IF score >= t2 THEN labels[2]
  ELSE IF score >= t3 THEN labels[3]
  ELSE IF score >= t4 THEN labels[4]
  ELSE labels[5]

\* C4: for a text that is not too short, total_score is
\* clamp(0, 100, sum of the four sub-scores - penalties), and the
\* classification is the scorer's threshold table applied to that total
\* (Substance 80/65/50/35, Quality 85/70/55/40, Uniqueness 80/65/50/35).
C4_TotalAndTier ==
  CalledScored =>
    /\ Called("substance") =>
         /\ ret.total_score =
              Clamp(0, 1000, ret.information_density + ret.depth_score
                             + ret.value_indicators + ret.structure_score
                             - ret.penalties)
         /\ ret.classification =
              Tier(ret.total_score, 800, 650, 500, 350,
                   <<"Exceptional Substance", "High Substance",
                     "Moderate Substance", "Low Substance",
                     "Minimal Substance">>)
    /\ Called("quality") =>
         /\ ret.total_score =
              Clamp(0, 1000, ret.readability + ret.structure
                             + ret.professionalism + ret.grammar_clarity
                             - ret.penalties)
         /\ ret.classification =
              Tier(ret.total_score, 850, 700, 550, 400,
                   <<"Exceptional Quality", "High Quality", "Good Quality",
                     "Moderate Quality", "Low Quality">>)
    /\ Called("uniqueness") =>
         /\ ret.total_score =
              Clamp(0, 1000, ret.personal_story + ret.original_thinking
                             + ret.specificity + ret.uniqueness_vs_corpus
                             - ret.penalties)
         /\ ret.classification =
              Tier(ret.total_score, 800, 650, 500, 350,
                   <<"Highly Unique", "Very Unique", "Moderately Unique",
                     "Somewhat Generic", "Very Generic">>)

\* A Uniqueness record whose penalties exceed its sub-scores: the lower
\* clamp acts.
C4_Witness ==
  /\ Called("uniqueness")
  /\ CalledScored
  /\ ret.personal_story + ret.original_thinking + ret.specificity
       + ret.uniqueness_vs_corpus < ret.penalties
  /\ ret.total_score = 0
  /\ ret.classification = "Very Generic"

WeightedThousandths(s, q, u) == 35 * s + 30 * q + 35 * u

\* C5: for every post processed by analyze_all_content, composite_score is
\* 0.35*substance + 0.30*quality + 0.35*uniqueness rounded to two decimals
\* (a hundredth nearest to the weighted sum), and it lies in [0,100].
C5_CompositeIsRoundedWeightedSum ==
  \A r \in Range(all_results) :
    LET exact == WeightedThousandths(r.substance_score, r.quality_score,
                                     r.uniqueness_score)
    IN /\ 10 * r.composite_score - exact \in -5..5
       /\ r.composite_score \in 0..10000

\* A record of a post scored by all three scorers whose weighted sum is not
\* a whole number of hundredths, so that the rounding acts.
C5_Witness ==
  \E r \in Range(all_results) :
    /\ r.substance_score > 0 /\ r.quality_score > 0 /\ r.uniqueness_score > 0
    /\ WeightedThousandths(r.substance_score, r.quality_score,
                           r.uniqueness_score) % 10 # 0
    /\ r.composite_score > 8000

\* C6: raising one of the three totals while the other two stay fixed never
\* lowers composite_score.
C6_CompositeMonotone ==
  Len(combined) = 2 =>
    LET a == combined[2]
        b == combined[1]
    IN \/ a.substance <= b.substance /\ a.quality = b.quality
          /\ a.uniqueness = b.uniqueness
       \/ a.substance = b.substance /\ a.quality <= b.quality
          /\ a.uniqueness = b.uniqueness
       \/ a.substance = b.substance /\ a.quality = b.quality
          /\ a.uniqueness <= b.uniqueness
       => a.composite_score <= b.composite_score

\* Quality raised by 0.1 from a halfway sum that was rounded up.
C6_Witness ==
  /\ Len(combined) = 2
  /\ combined[2].substance = combined[1].substance
  /\ combined[2].uniqueness = combined[1].uniqueness
  /\ combined[2].quality + 1 = combined[1].quality
  /\ WeightedThousandths(combined[2].substance, combined[2].quality,
                         combined[2].uniqueness) % 10 = 5
  /\ 10 * combined[2].composite_score >
       WeightedThousandths(combined[2].substance, combined[2].quality,
                           combined[2].uniqueness)
  /\ combined[2].composite_score < combined[1].composite_score

Ranked == pc \in {"done", "ZeroDivisionError"}

\* C7: the ranking of generate_reports is a permutation of the input
\* records in non-increasing composite_score order, and records with equal
\* composite_score keep their input order.
C7_RankingIsStableSort ==
  Ranked =>
    /\ Len(results_sorted) = Len(all_results)
    /\ \E pi \in Permutations(1..Len(all_results)) :
         /\ \A k \in 1..Len(all_results) :
              results_sorted[k] = all_results[pi[k]]
         /\ \A k \in 1..Len(all_results), l \in 1..Len(all_results) :
              k < l =>
                /\ results_sorted[k].composite_score
                     >= results_sorted[l].composite_score
                /\ results_sorted[k].composite_score
                     = results_sorted[l].composite_score
                   => pi[k] < pi[l]

\* A ranked batch of three that had to be reordered and holds two different
\* records with the same composite_score.
C7_Witness ==
  /\ pc = "done"
  /\ Len(all_results) = 3
  /\ results_sorted # all_results
  /\ all_results[1].composite_score = all_results[2].composite_score
  /\ all_results[1] # all_results[2]
  /\ all_results[3].composite_score > all_results[1].composite_score

RECURSIVE TotalOf(_, _)
TotalOf(f, S) ==
  IF S = {} THEN 0
  ELSE LET x == CHOOSE y \in S : TRUE IN f[x] + TotalOf(f, S \ {x})

\* The claimed band of a mean similarity total/count (thousandths):
\* m < 0.1 gives 25, m < 0.2 gives 20, m < 0.3 gives 15, m < 0.4 gives 10,
\* otherwise 5.
ClaimedBand(total, count) ==
  IF total < 100 * count THEN 250
  ELSE IF total < 200 * count THEN 200
  ELSE IF total < 300 * count THEN 150
  ELSE IF total < 400 * count THEN 100
  ELSE 50

\* The row a post_index addresses in a matrix of n rows (0: none).
AddressedRow(n, index) ==
  IF 0 <= index /\ index < n THEN index + 1
  ELSE IF -n <= index /\ index < 0 THEN n + index + 1
  ELSE 0

\* uniqueness_vs_corpus of a post whose single comparator has similarity m
BandAt(m) ==
  Uniqueness_score_similarity(Some(<< <<1000, m>>, <<m, 1000>> >>), Some(0))

\* C8: for a text that is not too short, uniqueness_vs_corpus is 12.5 when
\* there is no matrix or no post_index; for a post_index that addresses a
\* row it is the band of the mean similarity m to the other rows (thresholds
\* 0.1, 0.2, 0.3, 0.4 giving 25, 20, 15, 10, 5); it is always one of
\* 5, 10, 15, 20, 25, 12.5; and a larger m never gives a larger value.
C8_SimilarityBands ==
  Called("uniqueness") /\ CalledScored =>
    /\ tfidf_matrix = None \/ call.post_index = None =>
         ret.uniqueness_vs_corpus = 125
    /\ ret.uniqueness_vs_corpus \in {50, 100, 150, 200, 250, 125}
    /\ tfidf_matrix # None /\ call.post_index # None =>
         LET n   == Len(tfidf_matrix[1])
             row == AddressedRow(n, call.post_index[1])
         IN row # 0 =>
              LET total == TotalOf(tfidf_matrix[1][row], (1..n) \ {row})
              IN /\ ret.uniqueness_vs_corpus = ClaimedBand(total, n - 1)
                 /\ \A m \in DirectSimValues :
                      /\ total <= m * (n - 1) =>
                           ret.uniqueness_vs_corpus >= BandAt(m)
                      /\ total >= m * (n - 1) =>
                           ret.uniqueness_vs_corpus <= BandAt(m)

\* A post whose mean similarity is exactly 0.1, the lower end of the band
\* worth 20.
C8_Witness ==
  /\ Called("uniqueness") /\ CalledScored
  /\ tfidf_matrix # None
  /\ call.post_index = Some(0)
  /\ tfidf_matrix[1][1][2] = 100
  /\ ret.uniqueness_vs_corpus = 200

\* C9: with a matrix, the mean behind uniqueness_vs_corpus of post k is
\* taken over the other N-1 posts only; and a batch of exactly one post
\* gets 12.5 for a text that is not too short, without an error.
C9_SelfExcluded ==
  /\ tfidf_matrix # None =>
       \A k \in 1..Len(all_results) :
         all_results[k].uniqueness_classification # "Too short" =>
           all_results[k].uniqueness_vs_corpus =
             ClaimedBand(TotalOf(tfidf_matrix[1][k], (1..Len(posts)) \ {k}),
                         Len(posts) - 1)
  /\ Len(posts) = 1 =>
       /\ pc # "ZeroDivisionError"
       /\ \A k \in 1..Len(all_results) :
            all_results[k].uniqueness_classification # "Too short" =>
              all_results[k].uniqueness_vs_corpus = 125

\* A batch of one scored post, analysed and ranked.
C9_Witness ==
  /\ Len(posts) = 1
  /\ pc = "done"
  /\ all_results[1].uniqueness_classification # "Too short"
  /\ all_results[1].uniqueness_vs_corpus = 125

\* C10 as stated: without a matrix (never built, or the build failed) every
\* post scored by UniquenessDetector.analyze_post gets 12.5.
C10_NeutralWithoutMatrix ==
  Called("uniqueness") /\ tfidf_matrix = None =>
    ret.uniqueness_vs_corpus = 125

\* C10, amended: without a matrix every post that is not too short gets
\* 12.5 for uniqueness_vs_corpus and is scored on its other components as
\* usual; a too-short post gets the zero record, uniqueness_vs_corpus 0.
C10_NeutralWithoutMatrixScored ==
  Called("uniqueness") /\ tfidf_matrix = None =>
    IF CalledScored
    THEN /\ ret.uniqueness_vs_corpus = 125
         /\ ret.total_score =
              Clamp(0, 1000, ret.personal_story + ret.original_thinking
                             + ret.specificity + 125 - ret.penalties)
    ELSE ret.uniqueness_vs_corpus = 0

\* A scored post given its index after prepare_corpus failed to build the
\* matrix.
C10_Witness ==
  /\ Called("uniqueness") /\ CalledScored
  /\ vectorizer = "unfitted"
  /\ tfidf_matrix = None
  /\ call.post_index = Some(0)
  /\ ret.uniqueness_vs_corpus = 125
  /\ ret.total_score > 125

(***************************************************************************)
(* C11  prepare_corpus returns normally on a degenerate corpus (an empty   *)
(* batch, a single post, posts without text, fewer than two posts with any *)
(* vocabulary) and leaves the index disabled: tfidf_matrix is None and     *)
(* every post's text is kept.  The loop of analyze_all_content over such a *)
(* batch raises nothing and has one record per post handled, so it returns *)
(* one record per post (none for the empty batch).  Texts are strings or   *)
(* absent here; a null text is the matter of C15.                          *)
(***************************************************************************)
StringTexts ==
  \A r \in 1..Len(posts) : ~Readings(PostText(posts[r])).is_none

DegenerateCorpus ==
  \/ Len(posts) <= 1
  \/ \A r, s \in 1..Len(posts) :
       Readings(PostText(posts[r])).tokens /\ Readings(PostText(posts[s])).tokens
       => r = s

BuildPending == pc \in {"prepare", "u_prepare"}

C12_BuildOnceBeforeIndexedScoring ==
  [][ /\ BuildPending =>
           /\ ~BuildPending'
           /\ vectorizer = "None" /\ vectorizer' # "None"
           /\ Len(all_posts_text') = Len(posts)
           /\ UNCHANGED <<i, all_results>>
      /\ ~BuildPending =>
           /\ ~BuildPending'
           /\ vectorizer # "None"
           /\ UNCHANGED detector ]_vars

C12_Witness ==
  /\ pc = "u_loop"
  /\ i = 2
  /\ Len(all_results) = 2
  /\ vectorizer = "fitted"
  /\ all_results[2].uniqueness_vs_corpus = 250

(***************************************************************************)
(* C13  A scoring call changes nothing of the corpus state: across every   *)
(* step in which analyze_post of any scorer is called, with any text and   *)
(* any post_index, all_posts_text, vectorizer and tfidf_matrix are what    *)
(* they were (before prepare_corpus as well as after it).                  *)
(***************************************************************************)
C13_ScoringLeavesCorpus ==
  [][ call' # call /\ call'.scorer # "none" => UNCHANGED detector ]_vars

\* a call that hit the failure fallback on a built index
C13_Witness ==
  /\ Called("uniqueness")
  /\ vectorizer = "fitted"
  /\ tfidf_matrix # None
  /\ call.post_index = Some(Len(all_posts_text))
  /\ ret.uniqueness_vs_corpus = 125

(***************************************************************************)
(* C14  Scoring is idempotent and deterministic: after any sequence of     *)
(* scoring calls, the record the latest call returned is the record the    *)
(* same call (same scorer, same text, same post_index) returns when it is  *)
(* made again in the state the call left, so a record depends on the       *)
(* call's arguments and the corpus state only.                             *)
(***************************************************************************)
AnalyzePostAgain ==
  CASE Called("substance")  -> Substance_analyze_post(CalledText)
    [] Called("quality")    -> Quality_analyze_post(CalledText)
    [] Called("uniqueness") ->
         Uniqueness_analyze_post(tfidf_matrix, CalledText, call.post_index)

C15_NoPostAbortsBatch ==
  /\ pc # "AttributeError"
  /\ pc \in {"returned", "done", "ZeroDivisionError"} =>
       /\ Len(all_results) = Len(posts)
       /\ \A r \in 1..Len(posts) :
            all_results[r].word_count = Readings(PostText(posts[r])).words

(***************************************************************************)
(* C16  Concurrent analyze_post calls on a shared, prepared detector give, *)
(* in every interleaving of their steps, for each post the record the      *)
(* sequential loop gives it: every record returned for post_index n is     *)
(* analyze_post(text of post n, n) on the prepared corpus, and the workers *)
(* leave the corpus state as prepare_corpus left it.                       *)
(***************************************************************************)
C16_InterleavedAsSequential ==
  /\ \A e \in all_results :
       e.record = Uniqueness_analyze_post(
                    tfidf_matrix, Readings(PostText(posts[e.post_index + 1])),
                    Some(e.post_index))
  /\ pc = "loop" => /\ Len(all_posts_text) = Len(posts)
                    /\ vectorizer # "None"

\* two calls in progress at once, on posts whose similarity scores differ:
\* the call for post 1 has returned 5 while the calls for posts 0 and 2 hold
\* different rows of the matrix
C16_Witness ==
  /\ Len(posts) = 3
  /\ workers["w1"].pc = "band" /\ workers["w1"].post_index = Some(0)
  /\ workers["w2"].pc = "band" /\ workers["w2"].post_index = Some(2)
  /\ workers["w1"].similarities # workers["w2"].similarities
  /\ \E b \in all_results :
       /\ b.post_index = 1
       /\ b.record.uniqueness_vs_corpus = 50

(***************************************************************************)
(* C17  When a step of the readability computation fails, the readability  *)
(* of the record is 12, whatever had been accumulated before the failure;  *)
(* the record is returned all the same, and its structure,                 *)
(* professionalism, grammar_clarity and penalties are those of the same    *)
(* text scored without the failure; the total is made of these values.     *)
(***************************************************************************)
ReadabilityFails == ~(CalledText.flesch_ok /\ CalledText.grade_ok)

WithoutFailure ==
  Quality_analyze_post([CalledText EXCEPT !.flesch_ok = TRUE, !.grade_ok = TRUE])

C17_ReadabilityFallback ==
  Called("quality") /\ ret.classification # "Too short" /\ ReadabilityFails =>
    /\ ret.readability = 120
    /\ ret.structure = WithoutFailure.structure
    /\ ret.professionalism = WithoutFailure.professionalism
    /\ ret.grammar_clarity = WithoutFailure.grammar_clarity
    /\ ret.penalties = WithoutFailure.penalties
    /\ ret.total_score =
         Clamp(0, 1000, 120 + ret.structure + ret.professionalism
                         + ret.grammar_clarity - ret.penalties)

\* the ease term (10 points) was already added when the grade call failed
C17_Witness ==
  /\ Called("quality")
  /\ CalledText.flesch_ok /\ CalledText.flesch = 600
  /\ ~CalledText.grade_ok
  /\ ret.readability = 120
  /\ ret.structure > 0
  /\ ret.penalties > 0
  /\ WithoutFailure.readability = 170

(***************************************************************************)
(* C18  As stated: for "Success is a mindset! Agree? <rocket>" the         *)
(* SubstanceDetector returns a record classified "Too short" or in the     *)
(* lowest tier whose penalties include the deduction of 3 for "agree?".    *)
(***************************************************************************)
CalledOn(scorer, fam) ==
  Called(scorer) /\ call.text = Text(fam, 0, NoLevels)

C18_ShortTextPenalised ==
  CalledOn("substance", "short") =>
    /\ ret.classification \in {"Too short", "Minimal Substance"}
    /\ ret.penalties >= 30

(***************************************************************************)
(* C18  Amended: the text has 30 characters, fewer than the 50 the         *)
(* SubstanceDetector asks for, so the record is the zero record classified *)
(* "Too short" and its penalties are 0 although the text contains          *)
(* "agree?"; the deduction of 3 per engagement-bait phrase is made on      *)
(* texts of at least 50 characters, such as the 218-character template.    *)
(***************************************************************************)
C18_ShortTextTooShort ==
  /\ CalledOn("substance", "short") =>
       /\ CalledText.strip_len = 30 /\ CalledText.shallow = 1
       /\ ret.classification = "Too short"
       /\ ret.total_score = 0
       /\ ret.penalties = 0
  /\ CalledOn("substance", "flat") =>
       /\ CalledText.strip_len >= 50 /\ CalledText.words < 100
       /\ ret.penalties = 30 * CalledText.shallow + 50

C18_Witness ==
  /\ CalledOn("substance", "short")
  /\ CalledText.shallow = 1
  /\ ret.classification = "Too short"
  /\ ret.penalties = 0

(***************************************************************************)
(* C19  professionalism = clamp(0, 25, 15 + min(5, 0.8 * professional-word *)
(* hits) + emoji term + shouting term + sign-off term), the emoji term     *)
(* being +3 for no emoji, +2 for 1-5, 0 for 6-10 and -3 for more than 10;  *)
(* and triple punctuation adds a flat 3 to the penalties however many      *)
(* "!!!" and "???" sequences there are: a post with 12 emojis and three    *)
(* "!!!" gets the -3 emoji term and 3, not 9, from triple punctuation.     *)
(***************************************************************************)
EmojiTerm(n) ==
  IF n = 0 THEN 30 ELSE IF n <= 5 THEN 20 ELSE IF n <= 10 THEN 0 ELSE -30

TriplePunctuation(text) ==
  IF text.triple_bang + text.triple_quest > 0 THEN 30 ELSE 0

C19_ProfessionalismAndTriplePunctuation ==
  Called("quality") /\ ret.classification # "Too short" =>
    /\ ret.professionalism =
         Clamp(0, 250, 150 + Min(50, 8 * CalledText.prof_words)
                        + EmojiTerm(CalledText.emoji_q)
                        + (IF CalledText.caps3 > 5 THEN -30 ELSE 0)
                        + (IF CalledText.signoff THEN 20 ELSE 0))
    /\ ret.penalties =
         Min(200, 40 * CalledText.clickbait + 50 * CalledText.spam
                  + (IF CalledText.caps4 > 3 THEN 40 ELSE 0)
                  + 20 * CalledText.typos
                  + TriplePunctuation(CalledText))

\* twelve emojis and three "!!!", nothing else penalised
C19_Witness ==
  /\ Called("quality")
  /\ CalledText.emoji_q = 12
  /\ CalledText.triple_bang = 3
  /\ CalledText.caps3 <= 5
  /\ ret.professionalism = 120
  /\ ret.penalties = 30

(***************************************************************************)
(* C20  The structure sub-score of QualityAssessor contains the line-break *)
(* bonus of 4 exactly when the text has more than 5 newline characters: it *)
(* is the paragraph, opening, list and flow terms plus 4 in that case and  *)
(* plus nothing otherwise, capped at 25.  (Violated by a text with exactly *)
(* 5 newlines.)                                                            *)
(***************************************************************************)
StructureBesidesLineBreaks(text) ==
  (IF text.paragraphs >= 3 THEN 60 ELSE IF text.paragraphs >= 2 THEN 40 ELSE 0)
  + (IF text.strip_len > 0 /\ text.first_line_words \in 5..20 THEN 50 ELSE 0)
  + (IF text.bullet \/ text.dash_items >= 2 \/ text.numbered_items > 0
     THEN 50 ELSE 0)
  + Min(50, 15 * text.transitions)

C20_LineBreakBonusAboveFive ==
  Called("quality") /\ ret.classification # "Too short" =>
    ret.structure =
      Min(250, StructureBesidesLineBreaks(CalledText)
               + (IF CalledText.newlines > 5 THEN 40 ELSE 0))

(***************************************************************************)
(* C21  The structure sub-score of SubstanceDetector contains the opening- *)
(* line bonus of 3 exactly when the first line has 20 to 150 characters,   *)
(* both bounds included: it is the paragraph, conclusion, formatting and   *)
(* header terms plus 3 in that case and plus nothing otherwise, capped at  *)
(* 20.  (Violated by first lines of exactly 20 or exactly 150 characters.) *)
(***************************************************************************)
StructureBesidesOpening(text) ==
  (IF text.paragraphs >= 3 THEN 50 ELSE IF text.paragraphs >= 2 THEN 30 ELSE 0)
  + (IF text.conclusion THEN 40 ELSE 0)
  + (IF text.newlines > 5 THEN 30 ELSE 0)
  + (IF text.headers \/ text.em_dashes > 2 THEN 50 ELSE 0)

C21_OpeningLineBonusInclusive ==
  Called("substance") /\ ret.classification # "Too short" =>
    ret.structure_score =
      Min(200, StructureBesidesOpening(CalledText)
               + (IF CalledText.first_line_len \in 20..150 THEN 30 ELSE 0))

(***************************************************************************)
(* C22  For a text that is not too short, the penalties of                 *)
(* SubstanceDetector are min(15, 3 per engagement-bait phrase present      *)
(* + emoji term + short term), the emoji term being 5 above 10 emojis, 2   *)
(* for 6-10 and 0 otherwise, the short term 5 exactly below 100 words.  So *)
(* a post of fewer than 100 words has penalties of at least 5, and the     *)
(* word-count tier of information_density and the short term are never     *)
(* both non-zero; at exactly 100 words both are zero.                      *)
(***************************************************************************)
WordCountTier(words) ==
  IF words > 500 THEN 100 ELSE IF words > 300 THEN 70
  ELSE IF words > 150 THEN 50 ELSE IF words > 100 THEN 30 ELSE 0

ShortTerm(words) == IF words < 100 THEN 50 ELSE 0

InformationBesidesTier(text) ==
  (IF text.sentences = 0 THEN 0
   ELSE IF 15 * text.sentences <= text.words /\ text.words <= 25 * text.sentences
        THEN 80
   ELSE IF 10 * text.sentences <= text.words /\ text.words < 15 * text.sentences
        THEN 50
   ELSE 0)
  + Min(70, 15 * text.numbers)
  + (IF text.bullet \/ text.numbered_dot \/ text.dash_items > 2 THEN 50 ELSE 0)

C22_SubstancePenalties ==
  Called("substance") /\ ret.classification # "Too short" =>
    LET words == CalledText.words
        emoji == IF CalledText.emoji_s > 10 THEN 50
                 ELSE IF CalledText.emoji_s >= 6 THEN 20 ELSE 0
    IN /\ ret.penalties = Min(150, 30 * CalledText.shallow + emoji + ShortTerm(words))
       /\ words < 100 => ret.penalties >= 50
       /\ ret.information_density =
            Min(300, WordCountTier(words) + InformationBesidesTier(CalledText))
       /\ WordCountTier(words) = 0 \/ ShortTerm(words) = 0
       /\ words = 100 => WordCountTier(words) = 0 /\ ShortTerm(words) = 0

\* exactly 100 words: two bait phrases and six emojis, no short term, no tier
C22_Witness ==
  /\ Called("substance")
  /\ CalledText.words = 100
  /\ CalledText.shallow = 2
  /\ CalledText.emoji_s = 6
  /\ ret.penalties = 80
  /\ ret.information_density = InformationBesidesTier(CalledText)

(***************************************************************************)
(* C23  value_indicators = min(25, sum over the seven keyword categories   *)
(* of min(4, 1.5 * h) for a category with h >= 1 keywords present, 0 for   *)
(* the others).  No category gives more than 4, and the cap of 25 is       *)
(* reached only when all seven categories contribute.                      *)
(***************************************************************************)
CategoryPoints(h) == IF h >= 1 THEN Min(40, 15 * h) ELSE 0

C23_ValueIndicators ==
  Called("substance") /\ ret.classification # "Too short" =>
    LET h == CalledText.value_found
        sum == CategoryPoints(h[1]) + CategoryPoints(h[2]) + CategoryPoints(h[3])
               + CategoryPoints(h[4]) + CategoryPoints(h[5]) + CategoryPoints(h[6])
               + CategoryPoints(h[7])
    IN /\ Len(h) = 7
       /\ ret.value_indicators = Min(250, sum)
       /\ \A c \in 1..7 : CategoryPoints(h[c]) <= 40
       /\ sum >= 250 => \A c \in 1..7 : h[c] >= 1

\* seven categories, 4 + 4 + 4 + 4 + 4 + 4 + 3 = 27, capped
C23_Witness ==
  /\ Called("substance")
  /\ CalledText.value_found = <<3, 3, 3, 3, 3, 3, 2>>
  /\ ret.value_indicators = 250

(***************************************************************************)
(* C24  In personal_story the proper-noun bonus is min(6, 0.8 * n), n      *)
(* being the number of distinct capitalised spans outside the first token  *)
(* of each sentence: a span that opens a sentence is not counted, a span   *)
(* later in a sentence, the first sentence included, is.  (Violated: the   *)
(* first sentence is skipped whole and the later ones are searched whole.) *)
(***************************************************************************)
PersonalBesidesProperNouns(text) ==
  Min(60, 3 * text.pronouns) + Min(80, 25 * text.personal_phrases)
  + Min(50, 20 * text.time_refs)

C24_ProperNounsOutsideFirstToken ==
  Called("uniqueness") /\ ret.classification # "Too short" =>
    ret.personal_story =
      Min(250, PersonalBesidesProperNouns(CalledText)
               + Min(60, 8 * (CalledText.caps_first_inner
                              + CalledText.caps_later_inner)))

(***************************************************************************)
(* C25  With a matrix in place, analyze_post with a post_index at or past  *)
(* the number of rows returns a normal record whose uniqueness_vs_corpus   *)
(* is 12.5; personal_story, original_thinking, specificity and penalties   *)
(* are those of the same text scored without an index, and the total is    *)
(* made of these values.                                                   *)
(***************************************************************************)
IndexPastEnd ==
  /\ Called("uniqueness")
  /\ tfidf_matrix # None
  /\ call.post_index # None
  /\ call.post_index[1] >= Len(tfidf_matrix[1])

WithoutIndex == Uniqueness_analyze_post(None, CalledText, None)

C25_IndexPastEndIsNeutral ==
  IndexPastEnd /\ ret.classification # "Too short" =>
    /\ ret.uniqueness_vs_corpus = 125
    /\ ret.personal_story = WithoutIndex.personal_story
    /\ ret.original_thinking = WithoutIndex.original_thinking
    /\ ret.specificity = WithoutIndex.specificity
    /\ ret.penalties = WithoutIndex.penalties
    /\ ret.total_score =
         Clamp(0, 1000, ret.personal_story + ret.original_thinking
                         + ret.specificity + 125 - ret.penalties)
    /\ ret.classification = WithoutIndex.classification

\* index 2 on a matrix of two rows whose row means are in the lowest band
C25_Witness ==
  /\ IndexPastEnd
  /\ Len(tfidf_matrix[1]) = 2
  /\ tfidf_matrix[1][1][2] = 400
  /\ call.post_index = Some(2)
  /\ ret.uniqueness_vs_corpus = 125
  /\ ret.personal_story > 0
  /\ ret.penalties > 0

(***************************************************************************)
(* C26  Index alignment in the batch pipelines: from the return of         *)
(* prepare_corpus(posts) on, all_posts_text has as many entries as posts   *)
(* and its entry i is the text of posts[i], a built matrix has one row per *)
(* post, and the record at position i was made from the text of posts[i]   *)
(* with post_index i, so that its similarity score is that of row i.       *)
(***************************************************************************)
OwnRowScore(r) ==
  Uniqueness_analyze_post(tfidf_matrix, Readings(PostText(posts[r])),
                          Some(r - 1)).uniqueness_vs_corpus

C26_IndexAlignment ==
  ~BuildPending =>
    /\ Len(all_posts_text) = Len(posts)
    /\ \A r \in 1..Len(posts) : all_posts_text[r] = PostText(posts[r])
    /\ tfidf_matrix # None => Len(tfidf_matrix[1]) = Len(posts)
    /\ Len(all_results) = i
    /\ \A r \in 1..Len(all_results) :
         /\ all_results[r].word_count = Readings(PostText(posts[r])).words
         /\ all_results[r].uniqueness_vs_corpus = OwnRowScore(r)

\* three posts, the middle one without text: the third is scored on row 2
C26_Witness ==
  /\ pc = "u_returned"
  /\ Len(all_results) = 3
  /\ tfidf_matrix # None
  /\ ~posts[2].has_text
  /\ all_results[1].uniqueness_vs_corpus = 150
  /\ all_results[2].uniqueness_vs_corpus = 0
  /\ all_results[3].uniqueness_vs_corpus = 150
  /\ tfidf_matrix[1][3] = <<400, 0, 1000>>

(***************************************************************************)
(* C27  A rebuild starts from scratch: after any sequence of               *)
(* prepare_corpus calls the index is that of the last call.  If the last   *)
(* corpus was degenerate (fewer than two posts with vocabulary),           *)
(* tfidf_matrix is None whatever was built before; a matrix, when there is *)
(* one, has a row per text of the last corpus; and without a matrix every  *)
(* analyze_post call on a text that is not too short, with a post_index,   *)
(* gets uniqueness_vs_corpus 12.5.                                         *)
(***************************************************************************)
LastCorpusDegenerate ==
  \A r, s \in 1..Len(all_posts_text) :
    Readings(all_posts_text[r]).tokens /\ Readings(all_posts_text[s]).tokens
    => r = s

C27_RebuildFromScratch ==
  /\ vectorizer # "None" /\ LastCorpusDegenerate =>
       tfidf_matrix = None /\ vectorizer = "unfitted"
  /\ tfidf_matrix # None =>
       /\ vectorizer = "fitted"
       /\ Len(tfidf_matrix[1]) = Len(all_posts_text)
  /\ /\ Called("uniqueness") /\ ret.classification # "Too short"
     /\ call.post_index # None /\ tfidf_matrix = None
     => ret.uniqueness_vs_corpus = 125

\* prepared on one post (possibly after a build on two), then queried
C27_Witness ==
  /\ vectorizer = "unfitted"
  /\ Len(all_posts_text) = 1
  /\ Readings(all_posts_text[1]).tokens
  /\ tfidf_matrix = None
  /\ Called("uniqueness")
  /\ call.post_index = Some(0)
  /\ ret.uniqueness_vs_corpus = 125
  /\ ret.specificity > 0

(***************************************************************************)
(* C28  For a text that is not too short, uniqueness_vs_corpus depends on  *)
(* post_index and the corpus only: it is the value a fixed other text (the *)
(* 230-word post) gets with the same post_index on the same corpus.        *)
(* personal_story, original_thinking, specificity and penalties depend on  *)
(* the text only: they are the values the same text gets with no           *)
(* post_index on a detector without a corpus.                              *)
(***************************************************************************)
OtherTextSameIndex ==
  Uniqueness_analyze_post(tfidf_matrix, RichText, call.post_index)

SameTextNoCorpus == Uniqueness_analyze_post(None, CalledText, None)

C28_SimilarityIgnoresText ==
  Called("uniqueness") /\ ret.classification # "Too short" =>
    LET same == SameTextNoCorpus
    IN /\ ret.uniqueness_vs_corpus = OtherTextSameIndex.uniqueness_vs_corpus
       /\ ret.personal_story = same.personal_story
       /\ ret.original_thinking = same.original_thinking
       /\ ret.specificity = same.specificity
       /\ ret.penalties = same.penalties

\* a 30-character text and the 230-word post get the same band on row 1,
\* and their other sub-scores differ
C28_Witness ==
  /\ Called("uniqueness")
  /\ CalledText.strip_len = 30
  /\ tfidf_matrix # None
  /\ call.post_index = Some(1)
  /\ ret.uniqueness_vs_corpus = 100
  /\ OtherTextSameIndex.uniqueness_vs_corpus = 100
  /\ ret.personal_story # OtherTextSameIndex.personal_story
  /\ ret.uniqueness_vs_corpus # SameTextNoCorpus.uniqueness_vs_corpus

(***************************************************************************)
(* C29  For a text that is not too short for QualityAssessor,              *)
(* professionalism is at least 9 and grammar_clarity at least 15, so with  *)
(* penalties of at most 20 total_score is at least 4.  A quality record    *)
(* has total_score 0 exactly when its classification is "Too short", and   *)
(* the total is the unclamped sum of the components minus the penalties    *)
(* (capped at 100).                                                        *)
(***************************************************************************)
QualitySum ==
  ret.readability + ret.structure + ret.professionalism + ret.grammar_clarity
    - ret.penalties

C29_QualityFloor ==
  Called("quality") =>
    /\ (ret.total_score = 0 <=> ret.classification = "Too short")
    /\ ~TooShort(CalledText, 30) =>
         /\ ret.professionalism >= 90
         /\ ret.grammar_clarity >= 150
         /\ ret.penalties <= 200
         /\ ret.readability >= 0 /\ ret.structure >= 0
         /\ QualitySum >= 40
         /\ ret.total_score = Min(1000, QualitySum)
         /\ ret.total_score >= 40

\* the floor is met: 0 + 0 + 9 + 15 - 20
C29_Witness ==
  /\ Called("quality")
  /\ ~TooShort(CalledText, 30)
  /\ ret.professionalism = 90
  /\ ret.grammar_clarity = 150
  /\ ret.penalties = 200
  /\ ret.readability = 0 /\ ret.structure = 0
  /\ ret.total_score = 40

(***************************************************************************)
(* C30  The too-short gates are nested.  A record of the batch that        *)
(* QualityAssessor or UniquenessDetector classified "Too short" comes from *)
(* a text of trimmed length below 30, is "Too short" for all three scorers *)
(* and has composite_score 0.  A record of a text of trimmed length 30 to  *)
(* 49 is "Too short" with score 0 for SubstanceDetector only, and its      *)
(* composite_score is 0.30 * quality + 0.35 * uniqueness, rounded, and at  *)
(* most 65.                                                                *)
(***************************************************************************)
BatchText(j) == Readings(PostText(posts[j]))

C30_NestedGates ==
  \A j \in 1..Len(all_results) :
    LET r == all_results[j]
        text == BatchText(j)
    IN /\ r.quality_classification = "Too short"
            \/ r.uniqueness_classification = "Too short" =>
              /\ text.strip_len < 30
              /\ r.substance_classification = "Too short"
              /\ r.quality_classification = "Too short"
              /\ r.uniqueness_classification = "Too short"
              /\ r.substance_score = 0 /\ r.quality_score = 0
              /\ r.uniqueness_score = 0
              /\ r.composite_score = 0
       /\ text.strip_len < 30 => r.quality_classification = "Too short"
       /\ text.strip_len >= 30 /\ text.strip_len < 50 =>
              /\ r.substance_classification = "Too short"
              /\ r.substance_score = 0
              /\ r.quality_classification # "Too short"
              /\ r.uniqueness_classification # "Too short"
              /\ 10 * r.composite_score
                   - WeightedThousandths(0, r.quality_score, r.uniqueness_score)
                     \in -5..5
              /\ r.composite_score <= 6500

\* a batch with a 29-character text, zero throughout, and a 30-character
\* text that only SubstanceDetector turns away
C30_Witness ==
  \E j, k \in 1..Len(all_results) :
    /\ BatchText(j).strip_len = 29
    /\ all_results[j].uniqueness_classification = "Too short"
    /\ all_results[j].composite_score = 0
    /\ BatchText(k).strip_len = 30
    /\ all_results[k].substance_classification = "Too short"
    /\ all_results[k].quality_score > 0
    /\ all_results[k].uniqueness_score > 0
    /\ all_results[k].composite_score > 0

====
